---- MODULE Spec2Model ----
(***************************************************************************)
(* Sales analytics system: record validation and cleaning                  *)
(* (data_processor.DataCleaner), line parsing (file_handler), the          *)
(* conversion to transactions (main.convert_to_transactions) and the       *)
(* aggregate views of data_processor.                                      *)
(*                                                                         *)
(* Python strings are sequences of one-character strings over Chars.       *)
(* Python floats are binary floating-point numbers; the model keeps the    *)
(* rounding of every arithmetic result to a fixed number of significant    *)
(* bits (MantBits, 53 for a Python float) and the not-a-number value.      *)
(***************************************************************************)
EXTENDS Integers, Sequences, FiniteSets, TLC

(* ---------------------------------------------------------------------- *)
(* Bounds                                                                  *)
(* ---------------------------------------------------------------------- *)
MantBits == 20     \* significant bits of a float (scaled down from 53)
MaxLines == 3      \* lines of one input file, header included
MaxTx == 3         \* transactions handed to an aggregate function
MaxProducts == 2   \* products in the API payload
MaxSales == 2      \* transactions handed to enrich_sales_data
MaxFilter == 2     \* transactions handed to validate_and_filter
MaxProcessed == 4  \* records a reused DataCleaner counts before it is left alone

(* ---------------------------------------------------------------------- *)
(* Strings                                                                 *)
(* ---------------------------------------------------------------------- *)
\* The characters that occur in the inputs of the model. No "e" "_" "+" "i"
\* "f": over this alphabet the numerals float() accepts are an optional "-",
\* then decimal digits with an optional point, or "nan", surrounded by
\* optional whitespace.
Digits == {"0", "1", "2", "5"}
Whitespace == {" ", "\n"}
Chars == Digits \cup Whitespace \cup {"T", "X", "P", "C", "R", "S", "a", "b", "c", "n", "d", "p", "r",
                                      "s", "t", "x", ",", ".", "-", "|"}

\* str.strip()
strip(s) ==
    LET keep == {i \in 1..Len(s) : s[i] \notin Whitespace}
    IN  IF keep = {} THEN <<>>
        ELSE LET a == CHOOSE i \in keep : \A j \in keep : i <= j
                 b == CHOOSE i \in keep : \A j \in keep : i >= j
             IN  SubSeq(s, a, b)

\* str.replace(old, new) for a one-character old and a string new
RECURSIVE replace(_, _, _)
replace(s, old, new) ==
    IF s = <<>> THEN <<>>
    ELSE (IF Head(s) = old THEN new ELSE <<Head(s)>>) \o replace(Tail(s), old, new)

\* str.split('|')
RECURSIVE split(_)
split(s) ==
    LET bars == {i \in 1..Len(s) : s[i] = "|"}
    IN  IF bars = {} THEN <<s>>
        ELSE LET i == CHOOSE k \in bars : \A j \in bars : k <= j
             IN  <<SubSeq(s, 1, i - 1)>> \o split(SubSeq(s, i + 1, Len(s)))

\* '|'.join(fields)
RECURSIVE join(_)
join(fs) ==
    IF fs = <<>> THEN <<>>
    ELSE IF Len(fs) = 1 THEN fs[1]
    ELSE fs[1] \o <<"|">> \o join(Tail(fs))

startswith(s, c) == Len(s) >= 1 /\ s[1] = c

\* str.lower()
lower(s) ==
    [i \in 1..Len(s) |->
        CASE s[i] = "T" -> "t" [] s[i] = "X" -> "x" [] s[i] = "P" -> "p" [] s[i] = "C" -> "c"
          [] s[i] = "R" -> "r" [] s[i] = "S" -> "s" [] OTHER -> s[i]]

(* ---------------------------------------------------------------------- *)
(* Floats                                                                  *)
(* ---------------------------------------------------------------------- *)
\* A float is a number (k = "num"), not-a-number (k = "nan"), or, for the
\* result of a conversion, the ValueError float() raises (k = "err"). A
\* number is held as the count v of quarters it is worth (1.5 is v = 6), an
\* integer of MantBits significant bits: a binary float with a fixed least
\* exponent. The numerals of the inputs have halves for fractions, so the
\* product of two of them is a whole number of quarters.
Num(n) == [k |-> "num", v |-> n]
NaN == [k |-> "nan", v |-> 0]
ValueError == [k |-> "err", v |-> 0]

Abs(n) == IF n < 0 THEN 0 - n ELSE n

RECURSIVE Pow2(_)
Pow2(n) == IF n = 0 THEN 1 ELSE 2 * Pow2(n - 1)

\* the magnitudes below it are held exactly
Exact == Pow2(MantBits)

\* the weight of the last kept bit of a magnitude
RECURSIVE Quantum(_)
Quantum(a) == IF a < Exact THEN 1 ELSE 2 * Quantum(a \div 2)

\* round the magnitude a to a multiple of q: to nearest, ties to even
RoundMagnitude(a, q) ==
    LET m == a \div q
        r == a % q
    IN  (IF 2 * r > q \/ (2 * r = q /\ m % 2 = 1) THEN m + 1 ELSE m) * q

\* round to nearest, ties to even, at MantBits significant bits
RoundFloat(n) ==
    IF n < 0 THEN 0 - RoundMagnitude(0 - n, Quantum(0 - n)) ELSE RoundMagnitude(n, Quantum(n))

fadd(x, y) == IF x.k = "nan" \/ y.k = "nan" THEN NaN ELSE Num(RoundFloat(x.v + y.v))
fmul(x, y) == IF x.k = "nan" \/ y.k = "nan" THEN NaN ELSE Num(RoundFloat((x.v * y.v) \div 4))
\* comparisons with not-a-number are false
fle(x, y) == x.k = "num" /\ y.k = "num" /\ x.v <= y.v
flt(x, y) == x.k = "num" /\ y.k = "num" /\ x.v < y.v
fgt(x, y) == x.k = "num" /\ y.k = "num" /\ x.v > y.v
feq(x, y) == x.k = "num" /\ y.k = "num" /\ x.v = y.v
fge(x, y) == x.k = "num" /\ y.k = "num" /\ x.v >= y.v

DigitVal(c) == CASE c = "0" -> 0 [] c = "1" -> 1 [] c = "2" -> 2 [] c = "5" -> 5 [] OTHER -> 0

RECURSIVE DecVal(_)
DecVal(ds) == IF ds = <<>> THEN 0 ELSE 10 * DecVal(SubSeq(ds, 1, Len(ds) - 1)) + DigitVal(ds[Len(ds)])

\* the quarters a fraction part is worth: nothing, or a 5 (a half), then 0s
FractionQuarters(fp) == IF fp # <<>> /\ fp[1] = "5" THEN 2 ELSE 0

\* float(s): surrounding whitespace ignored, optional sign, then nan or
\* digits with an optional point and at least one digit. The fraction parts
\* of the model's numerals are halves.
\* where the integer part of a numeral ends: at its first point, or after
\* its last character
PointAt(body) ==
    LET points == {i \in 1..Len(body) : body[i] = "."}
    IN  IF points = {} THEN Len(body) + 1 ELSE CHOOSE i \in points : \A j \in points : i <= j

\* the number of the integer part ip and the fraction part fp, negated if neg
FloatOfParts(neg, ip, fp) ==
    IF /\ Len(ip) + Len(fp) >= 1
       /\ \A i \in 1..Len(ip) : ip[i] \in Digits
       /\ \A i \in 1..Len(fp) : fp[i] \in (IF i = 1 THEN {"0", "5"} ELSE {"0"})
    THEN Num(RoundFloat((IF neg THEN 0 - 1 ELSE 1) * (4 * DecVal(ip) + FractionQuarters(fp))))
    ELSE ValueError

\* the number of a numeral without its sign
FloatOfBody(neg, body) ==
    IF body = <<"n", "a", "n">> THEN NaN
    ELSE FloatOfParts(neg, SubSeq(body, 1, PointAt(body) - 1), SubSeq(body, PointAt(body) + 1, Len(body)))

FloatOfStripped(t) == FloatOfBody(startswith(t, "-"), IF startswith(t, "-") THEN Tail(t) ELSE t)

float(s) == FloatOfStripped(strip(s))

(* ---------------------------------------------------------------------- *)
(* file_handler: parse_line, create_line                                   *)
(* ---------------------------------------------------------------------- *)
parse_line(line) == LET parts == split(strip(line)) IN [i \in 1..Len(parts) |-> strip(parts[i])]

create_line(fs) == join(fs) \o <<"\n">>

(* ---------------------------------------------------------------------- *)
(* data_processor.DataCleaner: the pure methods                            *)
(* ---------------------------------------------------------------------- *)
\* clean_numeric: ValueError on an empty value, else float() of the value
\* without its commas
clean_numeric(value) ==
    IF value = <<>> THEN ValueError ELSE float(replace(value, ",", <<>>))

Verdict(ok, why) == [is_valid |-> ok, reason |-> why]

\* is_valid_record with the TransactionID rule moved before the numeric rules
is_valid_record_prefix_first(fs) ==
    IF Len(fs) < 8 THEN Verdict(FALSE, "Insufficient fields")
    ELSE
    LET transaction_id == strip(fs[1])
        customer_id == strip(fs[7])
        region == strip(fs[8])
        qty == clean_numeric(strip(fs[5]))
        price == clean_numeric(strip(fs[6]))
    IN  IF customer_id = <<>> \/ region = <<>> THEN Verdict(FALSE, "Missing CustomerID or Region")
        ELSE IF ~startswith(transaction_id, "T") THEN Verdict(FALSE, "TransactionID not starting with 'T'")
        ELSE IF qty.k = "err" THEN Verdict(FALSE, "Invalid Quantity format")
        ELSE IF fle(qty, Num(0)) THEN Verdict(FALSE, "Quantity <= 0")
        ELSE IF price.k = "err" THEN Verdict(FALSE, "Invalid UnitPrice format")
        ELSE IF fle(price, Num(0)) THEN Verdict(FALSE, "UnitPrice <= 0")
        ELSE Verdict(TRUE, "Valid")

is_valid_record(fs) ==
    IF Len(fs) < 8 THEN Verdict(FALSE, "Insufficient fields")
    ELSE
    LET transaction_id == strip(fs[1])
        customer_id == strip(fs[7])
        region == strip(fs[8])
        quantity == strip(fs[5])
        unit_price == strip(fs[6])
        qty == clean_numeric(quantity)
        price == clean_numeric(unit_price)
    IN  IF customer_id = <<>> \/ region = <<>> THEN Verdict(FALSE, "Missing CustomerID or Region")
        ELSE IF qty.k = "err" THEN Verdict(FALSE, "Invalid Quantity format")
        ELSE IF fle(qty, Num(0)) THEN Verdict(FALSE, "Quantity <= 0")
        ELSE IF price.k = "err" THEN Verdict(FALSE, "Invalid UnitPrice format")
        ELSE IF fle(price, Num(0)) THEN Verdict(FALSE, "UnitPrice <= 0")
        ELSE IF ~startswith(transaction_id, "T") THEN Verdict(FALSE, "TransactionID not starting with 'T'")
        ELSE Verdict(TRUE, "Valid")

\* re.match(r'^[\d,.\-]+$', field)
NumericLooking(field) ==
    field # <<>> /\ \A i \in 1..Len(field) : field[i] \in Digits \cup {",", ".", "-"}

clean_field(field) == IF NumericLooking(field) THEN replace(field, ",", <<>>) ELSE field

clean_product_name(product_name) == replace(product_name, ",", <<" ">>)

clean_record(fs) ==
    [i \in 1..Len(fs) |->
        LET field == strip(fs[i])
        IN  IF i = 4 THEN clean_product_name(field)
            ELSE IF i = 5 THEN clean_field(field)
            ELSE IF i = 6 THEN clean_field(field)
            ELSE field]

(* ---------------------------------------------------------------------- *)
(* DataCleaner.process_records and main.convert_to_transactions            *)
(* ---------------------------------------------------------------------- *)
\* f"{reason}: {line.strip()}": the reason, ": " and the characters of the
\* stripped line
ReasonEntry(why, line) == <<why, ":", " ">> \o strip(line)

\* ProcessLine keeping the stripped line of a rejected record
ProcessLineStripsRejected(st, line) ==
    IF strip(line) = <<>> THEN st
    ELSE LET fs == parse_line(line)
             v == is_valid_record(fs)
         IN  IF v.is_valid
             THEN [st EXCEPT !.valid_lines = Append(@, create_line(clean_record(fs))),
                             !.valid_records = @ + 1]
             ELSE [st EXCEPT !.invalid_records = @ + 1,
                             !.invalid_reasons = Append(@, ReasonEntry(v.reason, line)),
                             !.invalid_lines = Append(@, strip(line))]

\* ProcessLine putting a record before the ones already kept
ProcessLinePrepends(st, line) ==
    IF strip(line) = <<>> THEN st
    ELSE LET fs == parse_line(line)
             v == is_valid_record(fs)
         IN  IF v.is_valid
             THEN [st EXCEPT !.valid_lines = IF @ = <<>> THEN <<create_line(clean_record(fs))>>
                                             ELSE <<Head(@), create_line(clean_record(fs))>> \o Tail(@),
                             !.valid_records = @ + 1]
             ELSE [st EXCEPT !.invalid_records = @ + 1,
                             !.invalid_reasons = <<ReasonEntry(v.reason, line)>> \o @,
                             !.invalid_lines = <<line>> \o @]

\* one turn of the loop of process_records; st holds the fields of the
\* DataCleaner and the two lists being built
ProcessLine(st, line) ==
    IF strip(line) = <<>> THEN st
    ELSE LET fs == parse_line(line)
             v == is_valid_record(fs)
         IN  IF v.is_valid
             THEN [st EXCEPT !.valid_lines = Append(@, create_line(clean_record(fs))),
                             !.valid_records = @ + 1]
             ELSE [st EXCEPT !.invalid_records = @ + 1,
                             !.invalid_reasons = Append(@, ReasonEntry(v.reason, line)),
                             !.invalid_lines = Append(@, line)]

RECURSIVE ProcessLoop(_, _)
ProcessLoop(st, ls) ==
    IF ls = <<>> THEN st ELSE ProcessLoop(ProcessLine(st, Head(ls)), Tail(ls))

\* process_records validating the first line like the others
process_records_header_as_data(self, ls) ==
    ProcessLoop([total_records |-> Len(ls),
                 invalid_records |-> self.invalid_records,
                 valid_records |-> self.valid_records,
                 invalid_reasons |-> self.invalid_reasons,
                 valid_lines |-> <<>>,
                 invalid_lines |-> <<>>], ls)

\* self: the counters and the reason log of the DataCleaner the method is
\* called on; the result holds them after the call, with the returned lists
process_records(self, ls) ==
    LET header == IF ls # <<>> THEN <<ls[1]>> ELSE <<>>
        rest == IF ls # <<>> THEN Tail(ls) ELSE ls
    IN  ProcessLoop([total_records |-> Len(rest),
                     invalid_records |-> self.invalid_records,
                     valid_records |-> self.valid_records,
                     invalid_reasons |-> self.invalid_reasons,
                     valid_lines |-> header,
                     invalid_lines |-> <<>>], rest)

\* DataCleaner()
NewDataCleaner ==
    [total_records |-> 0, invalid_records |-> 0, valid_records |-> 0, invalid_reasons |-> <<>>]

Transaction(fs) ==
    [TransactionID |-> fs[1], Date |-> fs[2], ProductID |-> fs[3], ProductName |-> fs[4],
     Quantity |-> fs[5], UnitPrice |-> fs[6], CustomerID |-> fs[7], Region |-> fs[8]]

RECURSIVE convert_to_transactions(_)
convert_to_transactions(ls) ==
    IF ls = <<>> THEN <<>>
    ELSE LET line == Head(ls)
             fs == parse_line(line)
             rest == convert_to_transactions(Tail(ls))
         IN  IF strip(line) = <<>> THEN rest
             ELSE IF Len(fs) >= 8 THEN <<Transaction(fs)>> \o rest
             ELSE rest

(* ---------------------------------------------------------------------- *)
(* list.sort / sorted                                                      *)
(* ---------------------------------------------------------------------- *)
\* CPython sorts a short list (under 64 elements) by taking the run the
\* list starts with and inserting the other elements by binary search,
\* comparing keys with < only; reverse=True reverses the list before and
\* after, which keeps equal keys in their order. With keys that < orders
\* totally this is the stable sort; with a not-a-number key the outcome is
\* what these comparisons give. The elements are <<key, item>> pairs.
Reverse(s) == [i \in 1..Len(s) |-> s[Len(s) + 1 - i]]

\* ord(c) for the characters of the model
ord(c) ==
    CASE c = "\n" -> 10 [] c = " " -> 32 [] c = "," -> 44 [] c = "-" -> 45 [] c = "." -> 46
      [] c = "0" -> 48 [] c = "1" -> 49 [] c = "2" -> 50 [] c = "5" -> 53
      [] c = "C" -> 67 [] c = "P" -> 80 [] c = "R" -> 82 [] c = "S" -> 83 [] c = "T" -> 84
      [] c = "X" -> 88 [] c = "a" -> 97 [] c = "b" -> 98 [] c = "c" -> 99 [] c = "d" -> 100
      [] c = "n" -> 110 [] c = "p" -> 112 [] c = "r" -> 114 [] c = "s" -> 115 [] c = "t" -> 116
      [] c = "x" -> 120 [] c = "|" -> 124 [] OTHER -> 0

\* str < str: by the first character that differs, a proper prefix first
StrLess(a, b) ==
    LET differ == {i \in 1..Len(a) : i > Len(b) \/ a[i] # b[i]}
        i == CHOOSE k \in differ : \A j \in differ : k <= j
    IN  IF differ = {} THEN Len(a) < Len(b)
        ELSE i <= Len(b) /\ ord(a[i]) < ord(b[i])

\* a string as a sort key
StrKey(a) == [k |-> "str", v |-> a]

\* key < key: the keys of one sort are all floats or all strings
KeyLess(x, y) == IF x[1].k = "str" THEN StrLess(x[1].v, y[1].v) ELSE flt(x[1], y[1])

\* count_run: the length of the run at the start and whether it descends
CountRun(a) ==
    LET n == Len(a)
        desc == n >= 2 /\ KeyLess(a[2], a[1])
        InRun(k) == \A i \in 3..k : IF desc THEN KeyLess(a[i], a[i - 1]) ELSE ~KeyLess(a[i], a[i - 1])
    IN  [len |-> IF n <= 1 THEN n ELSE CHOOSE k \in 2..n : InRun(k) /\ \A j \in 2..n : InRun(j) => j <= k,
         desc |-> desc]

\* the place of pivot among the sorted a[1..r] (number of elements before it)
RECURSIVE Bisect(_, _, _, _)
Bisect(a, pivot, l, r) ==
    IF l >= r THEN l
    ELSE LET p == l + ((r - l) \div 2)
         IN  IF KeyLess(pivot, a[p + 1]) THEN Bisect(a, pivot, l, p) ELSE Bisect(a, pivot, p + 1, r)

\* binarysort: a[1..start] is sorted, insert a[start+1..]
RECURSIVE BinarySort(_, _)
BinarySort(a, start) ==
    IF start >= Len(a) THEN a
    ELSE LET pivot == a[start + 1]
             l == Bisect(a, pivot, 0, start)
         IN  BinarySort(SubSeq(a, 1, l) \o <<pivot>> \o SubSeq(a, l + 1, start)
                        \o SubSeq(a, start + 2, Len(a)), start + 1)

ListSort(a) ==
    IF Len(a) < 2 THEN a
    ELSE LET run == CountRun(a)
             b == IF run.desc THEN Reverse(SubSeq(a, 1, run.len)) \o SubSeq(a, run.len + 1, Len(a)) ELSE a
         IN  BinarySort(b, run.len)

\* sorted(pairs, key=first, reverse=reverse), the items only
sorted(pairs, reverse) ==
    LET out == IF reverse THEN Reverse(ListSort(Reverse(pairs))) ELSE ListSort(pairs)
    IN  [i \in 1..Len(out) |-> out[i][2]]

(* ---------------------------------------------------------------------- *)
(* data_processor: the aggregate views                                     *)
(* ---------------------------------------------------------------------- *)
\* float(str(transaction.get(key, 0)).replace(',', ''))
ParseNumber(value) == float(replace(value, ",", <<>>))

\* the transaction makes the try block of an aggregate raise
Unparseable(t) == ParseNumber(t.Quantity).k = "err" \/ ParseNumber(t.UnitPrice).k = "err"

\* revenue = quantity * unit_price
Revenue(t) == fmul(ParseNumber(t.Quantity), ParseNumber(t.UnitPrice))

RECURSIVE calculate_total_revenue_from(_, _)
calculate_total_revenue_from(total_revenue, ts) ==
    IF ts = <<>> THEN total_revenue
    ELSE IF Unparseable(Head(ts)) THEN calculate_total_revenue_from(total_revenue, Tail(ts))
    ELSE calculate_total_revenue_from(fadd(total_revenue, Revenue(Head(ts))), Tail(ts))

calculate_total_revenue(ts) == calculate_total_revenue_from(Num(0), ts)

\* round(numer / denom * 100, 2) for denom > 0, in hundredths of a percent:
\* the decimal with two places nearest to the quotient, ties to even. The
\* quotient is developed digit by digit.
RECURSIVE Develop(_, _, _, _)
Develop(quot, rem, denom, places) ==
    IF places = 0 THEN [quot |-> quot, rem |-> rem]
    ELSE Develop(10 * quot + ((10 * rem) \div denom), (10 * rem) % denom, denom, places - 1)

PercentTruncated(numer, denom) ==
    LET a == Abs(numer)
        d == Develop(a \div denom, a % denom, denom, 4)
    IN  IF numer < 0 THEN 0 - d.quot ELSE d.quot

Percent(numer, denom) ==
    LET a == Abs(numer)
        d == Develop(a \div denom, a % denom, denom, 4)
        up == 2 * d.rem > denom \/ (2 * d.rem = denom /\ d.quot % 2 = 1)
        mag == IF up THEN d.quot + 1 ELSE d.quot
    IN  IF numer < 0 THEN 0 - mag ELSE mag

\* region_data as the ordered dict it is: a sequence of entries in
\* insertion order
RegionIndex(region_data, region) ==
    {i \in 1..Len(region_data) : region_data[i].region = region}

\* RegionAdd keeping the last revenue of a region instead of the sum
RegionAddOverwrites(region_data, region, revenue) ==
    LET at == RegionIndex(region_data, region)
        with == IF at = {}
                THEN Append(region_data, [region |-> region, total_sales |-> Num(0),
                                          transaction_count |-> 0, percentage |-> 0])
                ELSE region_data
        i == CHOOSE k \in RegionIndex(with, region) : TRUE
    IN  [with EXCEPT ![i].total_sales = revenue, ![i].transaction_count = @ + 1]

RegionAdd(region_data, region, revenue) ==
    LET at == RegionIndex(region_data, region)
        with == IF at = {}
                THEN Append(region_data, [region |-> region, total_sales |-> Num(0),
                                          transaction_count |-> 0, percentage |-> 0])
                ELSE region_data
        i == CHOOSE k \in RegionIndex(with, region) : TRUE
    IN  [with EXCEPT ![i].total_sales = fadd(@, revenue), ![i].transaction_count = @ + 1]

\* Step 1 of region_wise_sales: acc holds region_data and total_revenue
RECURSIVE RegionAggregate(_, _)
RegionAggregate(acc, ts) ==
    IF ts = <<>> THEN acc
    ELSE LET t == Head(ts)
         IN  IF Unparseable(t) THEN RegionAggregate(acc, Tail(ts))
             ELSE RegionAggregate([region_data |-> RegionAdd(acc.region_data, t.Region, Revenue(t)),
                                   total_revenue |-> fadd(acc.total_revenue, Revenue(t))], Tail(ts))

region_wise_sales(ts) ==
    LET acc == RegionAggregate([region_data |-> <<>>, total_revenue |-> Num(0)], ts)
        with_percentage ==
            [i \in 1..Len(acc.region_data) |->
                IF fgt(acc.total_revenue, Num(0))
                THEN [acc.region_data[i] EXCEPT
                        !.percentage = Percent(acc.region_data[i].total_sales.v, acc.total_revenue.v)]
                ELSE acc.region_data[i]]
    IN  sorted([i \in 1..Len(with_percentage) |->
                    <<with_percentage[i].total_sales, with_percentage[i]>>], TRUE)

\* product_data of top_selling_products and low_performing_products as the
\* ordered dict it is; total_quantity starts as the int 0 and is a float
\* from the first addition on
ProductAdd(product_data, product_name, quantity, revenue) ==
    LET at == {i \in 1..Len(product_data) : product_data[i].name = product_name}
        with == IF at = {}
                THEN Append(product_data, [name |-> product_name, total_quantity |-> Num(0),
                                           total_revenue |-> Num(0)])
                ELSE product_data
        i == CHOOSE k \in 1..Len(with) : with[k].name = product_name
    IN  [with EXCEPT ![i].total_quantity = fadd(@, quantity), ![i].total_revenue = fadd(@, revenue)]

\* Step 1 of top_selling_products and of low_performing_products
RECURSIVE ProductAggregate(_, _)
ProductAggregate(product_data, ts) ==
    IF ts = <<>> THEN product_data
    ELSE LET t == Head(ts)
         IN  IF Unparseable(t) THEN ProductAggregate(product_data, Tail(ts))
             ELSE ProductAggregate(ProductAdd(product_data, t.ProductName,
                                              ParseNumber(t.Quantity), Revenue(t)), Tail(ts))

\* list[:n]
SliceTo(list, n) ==
    IF n >= Len(list) THEN list
    ELSE IF n >= 0 THEN SubSeq(list, 1, n)
    ELSE IF Len(list) + n > 0 THEN SubSeq(list, 1, Len(list) + n)
    ELSE <<>>

top_selling_products(ts, n) ==
    LET product_list == ProductAggregate(<<>>, ts)
    IN  SliceTo(sorted([i \in 1..Len(product_list) |->
                            <<product_list[i].total_quantity, product_list[i]>>], TRUE), n)

\* round(numer / denom, places) for denom > 0 as the count of units of
\* 10^-places: the decimal nearest to the quotient, ties to even
RoundedQuotient(numer, denom, places) ==
    LET a == Abs(numer)
        d == Develop(a \div denom, a % denom, denom, places)
        up == 2 * d.rem > denom \/ (2 * d.rem = denom /\ d.quot % 2 = 1)
        mag == IF up THEN d.quot + 1 ELSE d.quot
    IN  IF numer < 0 THEN 0 - mag ELSE mag

\* round(x, 2) of a float: the nearest decimal with two places, ties to
\* even, and the float nearest to that decimal
round(x) ==
    IF x.k = "nan" THEN NaN
    ELSE Num(RoundFloat(RoundedQuotient(RoundedQuotient(x.v, 4, 2), 25, 0)))

\* CustomerAdd keeping the last amount of a customer instead of the sum
CustomerAddOverwrites(customer_data, customer_id, product_name, amount) ==
    LET at == {i \in 1..Len(customer_data) : customer_data[i].customer_id = customer_id}
        with == IF at = {}
                THEN Append(customer_data, [customer_id |-> customer_id, total_spent |-> Num(0),
                                            purchase_count |-> 0, avg_order_value |-> Num(0),
                                            products_bought |-> <<>>])
                ELSE customer_data
        i == CHOOSE k \in 1..Len(with) : with[k].customer_id = customer_id
        bought == with[i].products_bought
    IN  [with EXCEPT ![i].total_spent = amount,
                     ![i].purchase_count = @ + 1,
                     ![i].products_bought =
                         IF \E j \in 1..Len(bought) : bought[j] = product_name THEN bought
                         ELSE Append(bought, product_name)]

\* Step 1 of customer_analysis: customer_data as the ordered dict it is
CustomerAdd(customer_data, customer_id, product_name, amount) ==
    LET at == {i \in 1..Len(customer_data) : customer_data[i].customer_id = customer_id}
        with == IF at = {}
                THEN Append(customer_data, [customer_id |-> customer_id, total_spent |-> Num(0),
                                            purchase_count |-> 0, avg_order_value |-> Num(0),
                                            products_bought |-> <<>>])
                ELSE customer_data
        i == CHOOSE k \in 1..Len(with) : with[k].customer_id = customer_id
        bought == with[i].products_bought
    IN  [with EXCEPT ![i].total_spent = fadd(@, amount),
                     ![i].purchase_count = @ + 1,
                     ![i].products_bought =
                         IF \E j \in 1..Len(bought) : bought[j] = product_name THEN bought
                         ELSE Append(bought, product_name)]

\* CustomerAggregate counting a purchase of no amount for a transaction
\* that does not parse
RECURSIVE CustomerAggregateCountsAll(_, _)
CustomerAggregateCountsAll(customer_data, ts) ==
    IF ts = <<>> THEN customer_data
    ELSE LET t == Head(ts)
         IN  CustomerAggregateCountsAll(
                 CustomerAdd(customer_data, t.CustomerID, t.ProductName,
                             IF Unparseable(t) THEN Num(0) ELSE Revenue(t)), Tail(ts))

RECURSIVE CustomerAggregate(_, _)
CustomerAggregate(customer_data, ts) ==
    IF ts = <<>> THEN customer_data
    ELSE LET t == Head(ts)
         IN  IF Unparseable(t) THEN CustomerAggregate(customer_data, Tail(ts))
             ELSE CustomerAggregate(CustomerAdd(customer_data, t.CustomerID, t.ProductName,
                                                Revenue(t)), Tail(ts))

\* avg_order_value is held in hundredths: round(total_spent / purchase_count, 2)
customer_analysis(ts) ==
    LET customer_data == CustomerAggregate(<<>>, ts)
        with_avg ==
            [i \in 1..Len(customer_data) |->
                IF customer_data[i].purchase_count > 0
                THEN [customer_data[i] EXCEPT
                        !.avg_order_value =
                            IF customer_data[i].total_spent.k = "nan" THEN NaN
                            ELSE Num(RoundedQuotient(customer_data[i].total_spent.v,
                                                     4 * customer_data[i].purchase_count, 2))]
                ELSE customer_data[i]]
    IN  sorted([i \in 1..Len(with_avg) |-> <<with_avg[i].total_spent, with_avg[i]>>], TRUE)

\* DailyAdd keeping the last customer of a date only
DailyAddLastCustomer(daily_data, date, customer_id, revenue) ==
    LET at == {i \in 1..Len(daily_data) : daily_data[i].date = date}
        with == IF at = {}
                THEN Append(daily_data, [date |-> date, revenue |-> Num(0), transaction_count |-> 0,
                                         unique_customers |-> {}])
                ELSE daily_data
        i == CHOOSE k \in 1..Len(with) : with[k].date = date
    IN  [with EXCEPT ![i].revenue = fadd(@, revenue),
                     ![i].transaction_count = @ + 1,
                     ![i].unique_customers = {customer_id}]

\* Step 1 of daily_sales_trend: daily_data as the ordered dict it is,
\* unique_customers a set
DailyAdd(daily_data, date, customer_id, revenue) ==
    LET at == {i \in 1..Len(daily_data) : daily_data[i].date = date}
        with == IF at = {}
                THEN Append(daily_data, [date |-> date, revenue |-> Num(0), transaction_count |-> 0,
                                         unique_customers |-> {}])
                ELSE daily_data
        i == CHOOSE k \in 1..Len(with) : with[k].date = date
    IN  [with EXCEPT ![i].revenue = fadd(@, revenue),
                     ![i].transaction_count = @ + 1,
                     ![i].unique_customers = @ \cup {customer_id}]

RECURSIVE DailyAggregate(_, _)
DailyAggregate(daily_data, ts) ==
    IF ts = <<>> THEN daily_data
    ELSE LET t == Head(ts)
         IN  IF Unparseable(t) THEN DailyAggregate(daily_data, Tail(ts))
             ELSE DailyAggregate(DailyAdd(daily_data, strip(t.Date), strip(t.CustomerID),
                                          Revenue(t)), Tail(ts))

daily_sales_trend(ts) ==
    LET daily_data == DailyAggregate(<<>>, ts)
        result == [i \in 1..Len(daily_data) |->
                      [date |-> daily_data[i].date,
                       revenue |-> round(daily_data[i].revenue),
                       transaction_count |-> daily_data[i].transaction_count,
                       unique_customers |-> Cardinality(daily_data[i].unique_customers)]]
    IN  sorted([i \in 1..Len(result) |-> <<StrKey(result[i].date), result[i]>>], FALSE)

\* max() keeping the last of the items with the greatest revenue
RECURSIVE MaxByRevenueLast(_, _)
MaxByRevenueLast(best, items) ==
    IF items = <<>> THEN best
    ELSE IF fge(Head(items).revenue, best.revenue) THEN MaxByRevenueLast(Head(items), Tail(items))
    ELSE MaxByRevenueLast(best, Tail(items))

\* max(items, key=revenue): the first item no later item is greater than
RECURSIVE MaxByRevenue(_, _)
MaxByRevenue(best, items) ==
    IF items = <<>> THEN best
    ELSE IF fgt(Head(items).revenue, best.revenue) THEN MaxByRevenue(Head(items), Tail(items))
    ELSE MaxByRevenue(best, Tail(items))

\* None
None == [k |-> "none", v |-> <<>>]

\* the returned tuple for the day max() chose
PeakDay(peak_day) ==
    [date |-> StrKey(peak_day.date), revenue |-> peak_day.revenue,
     transaction_count |-> peak_day.transaction_count]

\* find_peak_sales_day giving the date of no day as the empty string
find_peak_sales_day_unguarded(ts) ==
    IF daily_sales_trend(ts) = <<>> THEN [date |-> StrKey(<<>>), revenue |-> Num(0), transaction_count |-> 0]
    ELSE PeakDay(MaxByRevenue(Head(daily_sales_trend(ts)), Tail(daily_sales_trend(ts))))

\* the peak of the days daily_sales_trend returned
PeakOf(daily_sales) ==
    IF daily_sales = <<>> THEN [date |-> None, revenue |-> Num(0), transaction_count |-> 0]
    ELSE PeakDay(MaxByRevenue(Head(daily_sales), Tail(daily_sales)))

find_peak_sales_day(ts) == PeakOf(daily_sales_trend(ts))

\* int(x) of a float that is a number: towards zero
int(x) == IF x.v < 0 THEN 0 - ((0 - x.v) \div 4) ELSE x.v \div 4

\* an int as a float, for comparisons
FromInt(n) == Num(4 * n)

\* low_performing_products keeping the products at the threshold too
low_performing_products_inclusive(ts, threshold) ==
    LET product_data == ProductAggregate(<<>>, ts)
        kept == SelectSeq(product_data, LAMBDA d : fle(d.total_quantity, FromInt(threshold)))
        low_performing == [i \in 1..Len(kept) |->
                              [name |-> kept[i].name,
                               total_quantity |-> int(kept[i].total_quantity),
                               total_revenue |-> round(kept[i].total_revenue)]]
    IN  sorted([i \in 1..Len(low_performing) |->
                    <<FromInt(low_performing[i].total_quantity), low_performing[i]>>], FALSE)

\* threshold is an int; total_quantity of an entry is the int int() returned
low_performing_products(ts, threshold) ==
    LET product_data == ProductAggregate(<<>>, ts)
        kept == SelectSeq(product_data, LAMBDA d : flt(d.total_quantity, FromInt(threshold)))
        low_performing == [i \in 1..Len(kept) |->
                              [name |-> kept[i].name,
                               total_quantity |-> int(kept[i].total_quantity),
                               total_revenue |-> round(kept[i].total_revenue)]]
    IN  sorted([i \in 1..Len(low_performing) |->
                    <<FromInt(low_performing[i].total_quantity), low_performing[i]>>], FALSE)

(* ---------------------------------------------------------------------- *)
(* api_handler: create_product_mapping, enrich_sales_data                  *)
(* ---------------------------------------------------------------------- *)
\* dict.get(key, default) of a dict held as a record
Get(dict, key, default) == IF key \in DOMAIN dict THEN dict[key] ELSE default

\* int(s): surrounding whitespace ignored, optional sign, decimal digits
int_of_str(s) ==
    LET t == strip(s)
        neg == startswith(t, "-")
        body == IF neg THEN Tail(t) ELSE t
    IN  IF body # <<>> /\ \A i \in 1..Len(body) : body[i] \in Digits
        THEN [k |-> "int", v |-> IF neg THEN 0 - DecVal(body) ELSE DecVal(body)]
        ELSE ValueError

\* A product of the API payload is a record of the keys it has; the value
\* of a key is None (a JSON null), StrKey of a string, a float, or for id
\* an int. product_mapping is the dict as a function from the int ids.
\* The entry of a product: the defaults stand in for the keys it lacks
ProductInfo(product) ==
    [title |-> Get(product, "title", StrKey(<<"U", "n", "k", "n", "o", "w", "n">>)),
     category |-> Get(product, "category", StrKey(<<"U", "n", "k", "n", "o", "w", "n">>)),
     brand |-> Get(product, "brand", StrKey(<<"U", "n", "k", "n", "o", "w", "n">>)),
     rating |-> Get(product, "rating", Num(0))]

RECURSIVE create_product_mapping_from(_, _)
create_product_mapping_from(product_mapping, api_products) ==
    IF api_products = <<>> THEN product_mapping
    ELSE LET product == Head(api_products)
             product_id == Get(product, "id", None)
         IN  IF product_id.k # "none"
             THEN create_product_mapping_from(
                      [i \in DOMAIN product_mapping \cup {product_id.v} |->
                          IF i = product_id.v THEN ProductInfo(product) ELSE product_mapping[i]],
                      Tail(api_products))
             ELSE create_product_mapping_from(product_mapping, Tail(api_products))

create_product_mapping(api_products) == create_product_mapping_from(<<>>, api_products)

\* the API fields of a record without a match
NoMatch ==
    [API_Category |-> None, API_Brand |-> None, API_Rating |-> None, API_Match |-> FALSE]

\* the body of the loop of enrich_sales_data: the enriched copy
Enrich(transaction, product_mapping) ==
    LET product_id_str == Get(transaction, "ProductID", <<>>)
        numeric_id == IF startswith(product_id_str, "P") THEN int_of_str(Tail(product_id_str))
                      ELSE int_of_str(product_id_str)
    IN  IF numeric_id.k = "err" THEN transaction @@ NoMatch
        ELSE IF numeric_id.v \in DOMAIN product_mapping
        THEN LET product_info == product_mapping[numeric_id.v]
             IN  transaction @@ [API_Category |-> Get(product_info, "category", None),
                                 API_Brand |-> Get(product_info, "brand", None),
                                 API_Rating |-> Get(product_info, "rating", None),
                                 API_Match |-> TRUE]
        ELSE transaction @@ NoMatch

\* enrich_sales_data giving up at the first ProductID that is no number
RECURSIVE EnrichUntilError(_, _)
EnrichUntilError(ts, product_mapping) ==
    IF ts = <<>> THEN <<>>
    ELSE LET product_id_str == Get(Head(ts), "ProductID", <<>>)
             numeric_id == IF startswith(product_id_str, "P") THEN int_of_str(Tail(product_id_str))
                           ELSE int_of_str(product_id_str)
         IN  IF numeric_id.k = "err" THEN <<>>
             ELSE <<Enrich(Head(ts), product_mapping)>> \o EnrichUntilError(Tail(ts), product_mapping)

enrich_sales_data_stopping(ts, product_mapping) ==
    [transactions |-> ts, enriched_transactions |-> EnrichUntilError(ts, product_mapping)]

\* enrich_sales_data writing the API fields into the transactions it is
\* handed
enrich_sales_data_in_place(ts, product_mapping) ==
    LET enriched == [i \in 1..Len(ts) |-> Enrich(ts[i], product_mapping)]
    IN  [transactions |-> enriched, enriched_transactions |-> enriched]

\* transactions: the list handed over as it is after the call;
\* enriched_transactions: the list returned
enrich_sales_data(ts, product_mapping) ==
    [transactions |-> ts,
     enriched_transactions |-> [i \in 1..Len(ts) |-> Enrich(ts[i], product_mapping)]]

(* ---------------------------------------------------------------------- *)
(* file_handler: validate_transaction, validate_and_filter                 *)
(* ---------------------------------------------------------------------- *)
required_fields == <<"TransactionID", "ProductID", "CustomerID", "Quantity", "UnitPrice">>

\* f"Missing required field: {field}"
MissingReason(field) ==
    CASE field = "TransactionID" -> "Missing required field: TransactionID"
      [] field = "ProductID" -> "Missing required field: ProductID"
      [] field = "CustomerID" -> "Missing required field: CustomerID"
      [] field = "Quantity" -> "Missing required field: Quantity"
      [] field = "UnitPrice" -> "Missing required field: UnitPrice"

\* field not in transaction or not transaction[field]
Missing(transaction, field) == field \notin DOMAIN transaction \/ transaction[field] = <<>>

\* a validator without the two numeric checks
validate_transaction_without_numeric_checks(transaction) ==
    LET missing == {i \in 1..Len(required_fields) : Missing(transaction, required_fields[i])}
    IN  IF missing # {}
        THEN Verdict(FALSE, MissingReason(required_fields[CHOOSE i \in missing : \A j \in missing : i <= j]))
        ELSE IF ~startswith(transaction.TransactionID, "T") THEN Verdict(FALSE, "TransactionID must start with 'T'")
        ELSE IF ~startswith(transaction.ProductID, "P") THEN Verdict(FALSE, "ProductID must start with 'P'")
        ELSE IF ~startswith(transaction.CustomerID, "C") THEN Verdict(FALSE, "CustomerID must start with 'C'")
        ELSE Verdict(TRUE, "Valid")

validate_transaction(transaction) ==
    LET missing == {i \in 1..Len(required_fields) : Missing(transaction, required_fields[i])}
        quantity == ParseNumber(transaction.Quantity)
        unit_price == ParseNumber(transaction.UnitPrice)
    IN  IF missing # {}
        THEN Verdict(FALSE, MissingReason(required_fields[CHOOSE i \in missing : \A j \in missing : i <= j]))
        ELSE IF quantity.k = "err" THEN Verdict(FALSE, "Invalid Quantity format")
        ELSE IF fle(quantity, Num(0)) THEN Verdict(FALSE, "Quantity must be > 0")
        ELSE IF unit_price.k = "err" THEN Verdict(FALSE, "Invalid UnitPrice format")
        ELSE IF fle(unit_price, Num(0)) THEN Verdict(FALSE, "UnitPrice must be > 0")
        ELSE IF ~startswith(transaction.TransactionID, "T") THEN Verdict(FALSE, "TransactionID must start with 'T'")
        ELSE IF ~startswith(transaction.ProductID, "P") THEN Verdict(FALSE, "ProductID must start with 'P'")
        ELSE IF ~startswith(transaction.CustomerID, "C") THEN Verdict(FALSE, "CustomerID must start with 'C'")
        ELSE Verdict(TRUE, "Valid")

\* region is a str
filter_by_region(ts, region) ==
    SelectSeq(ts, LAMBDA t : lower(Get(t, "Region", <<>>)) = lower(region))

\* min_amount and max_amount are None or a number; a transaction whose
\* Quantity or UnitPrice raises is left out
filter_by_amount(ts, min_amount, max_amount) ==
    SelectSeq(ts, LAMBDA t :
        /\ "Quantity" \in DOMAIN t
        /\ "UnitPrice" \in DOMAIN t
        /\ ~Unparseable(t)
        /\ ~(min_amount.k # "none" /\ flt(Revenue(t), min_amount))
        /\ ~(max_amount.k # "none" /\ fgt(Revenue(t), max_amount)))

\* validate_and_filter with the amount filter before the region filter
validate_and_filter_amount_first(ts, region, min_amount, max_amount) ==
    LET validated == SelectSeq(ts, LAMBDA t : validate_transaction(t).is_valid)
        invalid_count == Len(ts) - Len(validated)
        by_amount == IF min_amount.k # "none" \/ max_amount.k # "none"
                     THEN filter_by_amount(validated, min_amount, max_amount)
                     ELSE validated
        by_region == IF region.k # "none" THEN filter_by_region(by_amount, region.v) ELSE by_amount
    IN  [valid_transactions |-> by_region,
         invalid_count |-> invalid_count,
         filter_summary |-> [total_input |-> Len(ts),
                             invalid |-> invalid_count,
                             filtered_by_region |-> Len(by_amount) - Len(by_region),
                             filtered_by_amount |-> Len(validated) - Len(by_amount),
                             final_count |-> Len(by_region)]]

\* validate_and_filter taking the count of the amount stage from the
\* transactions before the region stage
validate_and_filter_counting_from_validated(ts, region, min_amount, max_amount) ==
    LET validated == SelectSeq(ts, LAMBDA t : validate_transaction(t).is_valid)
        invalid_count == Len(ts) - Len(validated)
        by_region == IF region.k # "none" THEN filter_by_region(validated, region.v) ELSE validated
        by_amount == IF min_amount.k # "none" \/ max_amount.k # "none"
                     THEN filter_by_amount(by_region, min_amount, max_amount)
                     ELSE by_region
    IN  [valid_transactions |-> by_amount,
         invalid_count |-> invalid_count,
         filter_summary |-> [total_input |-> Len(ts),
                             invalid |-> invalid_count,
                             filtered_by_region |-> Len(validated) - Len(by_region),
                             filtered_by_amount |-> IF min_amount.k # "none" \/ max_amount.k # "none"
                                                    THEN Len(validated) - Len(by_amount) ELSE 0,
                             final_count |-> Len(by_amount)]]

\* region is None or StrKey of a str; the result is the returned tuple
validate_and_filter(ts, region, min_amount, max_amount) ==
    LET validated == SelectSeq(ts, LAMBDA t : validate_transaction(t).is_valid)
        invalid_count == Len(ts) - Len(validated)
        by_region == IF region.k # "none" THEN filter_by_region(validated, region.v) ELSE validated
        by_amount == IF min_amount.k # "none" \/ max_amount.k # "none"
                     THEN filter_by_amount(by_region, min_amount, max_amount)
                     ELSE by_region
    IN  [valid_transactions |-> by_amount,
         invalid_count |-> invalid_count,
         filter_summary |-> [total_input |-> Len(ts),
                             invalid |-> invalid_count,
                             filtered_by_region |-> Len(validated) - Len(by_region),
                             filtered_by_amount |-> Len(by_region) - Len(by_amount),
                             final_count |-> Len(by_amount)]]

(* ---------------------------------------------------------------------- *)
(* State                                                                   *)
(* ---------------------------------------------------------------------- *)
VARIABLES
    pc,                 \* how far the run has come
    fields,             \* a raw record handed to the DataCleaner methods
    verdict,            \* what is_valid_record returned for it
    cleaned_fields,     \* clean_record(fields)
    recleaned_fields,   \* clean_record(cleaned_fields)
    lines,              \* the lines read from the input file
    cleaner,            \* the DataCleaner of main: counters and reason log
    valid_lines,        \* returned by cleaner.process_records(lines)
    invalid_lines,
    transactions,       \* convert_to_transactions(valid_lines[1:])
    rerun,              \* a fresh DataCleaner run on valid_lines
    txs,                \* the transactions handed to the aggregate functions
    total_revenue,      \* calculate_total_revenue(txs)
    region_sales,       \* region_wise_sales(txs)
    top_n,              \* the n of top_selling_products
    top_products,       \* top_selling_products(txs, top_n)
    customer_stats,     \* customer_analysis(txs)
    daily_trend,        \* daily_sales_trend(txs)
    peak,               \* find_peak_sales_day(txs)
    low_threshold,      \* the threshold of low_performing_products
    low_products,       \* low_performing_products(txs, low_threshold)
    api_products,       \* the products of the API payload
    product_mapping,    \* create_product_mapping(api_products)
    sales,              \* the transactions handed to enrich_sales_data
    sales_after,        \* the same list after the call
    enriched_transactions,  \* enrich_sales_data(sales, product_mapping)
    candidate,          \* a transaction handed to validate_transaction
    candidate_verdict,  \* what validate_transaction returned for it
    filter_txs,         \* the transactions handed to validate_and_filter
    filter_region,      \* its region, min_amount and max_amount
    filter_min,
    filter_max,
    filtered,           \* what validate_and_filter returned
    response,           \* what the product API answers in this run of main
    lookups,            \* how often main has asked the product API
    enriched,           \* enriched_transactions of main: None or a list
    report_calls        \* how often main has called generate_sales_report

vars == <<pc, fields, verdict, cleaned_fields, recleaned_fields, lines, cleaner, valid_lines,
          invalid_lines, transactions, rerun, txs, total_revenue, region_sales,
          top_n, top_products, customer_stats, daily_trend, peak, low_threshold, low_products,
          api_products, product_mapping, sales, sales_after, enriched_transactions,
          candidate, candidate_verdict, filter_txs, filter_region, filter_min, filter_max, filtered,
          response, lookups, enriched, report_calls>>

recordVars == <<fields, verdict, cleaned_fields, recleaned_fields>>
pipelineVars == <<lines, cleaner, valid_lines, invalid_lines, transactions, rerun>>
aggregateVars == <<txs, total_revenue, region_sales>>
viewVars == <<top_n, top_products, customer_stats, daily_trend, peak, low_threshold, low_products>>
enrichVars == <<api_products, product_mapping, sales, sales_after, enriched_transactions>>
validateVars == <<candidate, candidate_verdict>>
filterVars == <<filter_txs, filter_region, filter_min, filter_max, filtered>>
mainVars == <<response, lookups, enriched, report_calls>>

NoRerun == [total_records |-> 0, invalid_records |-> 0, valid_records |-> 0, invalid_reasons |-> <<>>,
            valid_lines |-> <<>>, invalid_lines |-> <<>>]

RecordIdle ==
    /\ fields = <<>>
    /\ verdict = Verdict(FALSE, "")
    /\ cleaned_fields = <<>>
    /\ recleaned_fields = <<>>

PipelineIdle ==
    /\ lines = <<>>
    /\ cleaner = NewDataCleaner
    /\ valid_lines = <<>>
    /\ invalid_lines = <<>>
    /\ transactions = <<>>
    /\ rerun = NoRerun

NoPeak == [date |-> None, revenue |-> Num(0), transaction_count |-> 0]

ViewsIdle ==
    /\ top_n = 0
    /\ top_products = <<>>
    /\ customer_stats = <<>>
    /\ daily_trend = <<>>
    /\ peak = NoPeak
    /\ low_threshold = 0
    /\ low_products = <<>>

NotFiltered ==
    [valid_transactions |-> <<>>, invalid_count |-> 0,
     filter_summary |-> [total_input |-> 0, invalid |-> 0, filtered_by_region |-> 0,
                         filtered_by_amount |-> 0, final_count |-> 0]]

EnrichIdle ==
    /\ api_products = <<>>
    /\ product_mapping = <<>>
    /\ sales = <<>>
    /\ sales_after = <<>>
    /\ enriched_transactions = <<>>

ValidateIdle ==
    /\ candidate = <<>>
    /\ candidate_verdict = Verdict(FALSE, "")

FilterIdle ==
    /\ filter_txs = <<>>
    /\ filter_region = None
    /\ filter_min = None
    /\ filter_max = None
    /\ filtered = NotFiltered

\* no answer of the product API, as before main asks
NoResponse == [k |-> "none", v |-> <<>>]

MainIdle ==
    /\ response = NoResponse
    /\ lookups = 0
    /\ enriched = None
    /\ report_calls = 0

AggregateIdle ==
    /\ txs = <<>>
    /\ total_revenue = Num(0)
    /\ region_sales = <<>>
    /\ ViewsIdle
    /\ EnrichIdle
    /\ ValidateIdle
    /\ FilterIdle
    /\ MainIdle

\* the sequences over S of length at most n
RECURSIVE SeqsUpTo(_, _)
SeqsUpTo(S, n) ==
    IF n = 0 THEN {<<>>}
    ELSE LET shorter == SeqsUpTo(S, n - 1)
         IN  shorter \cup {Append(q, x) : q \in {r \in shorter : Len(r) = n - 1}, x \in S}

(* ---------------------------------------------------------------------- *)
(* The DataCleaner methods on one raw record                               *)
(* ---------------------------------------------------------------------- *)
TransactionIDs == {<<"T", "1">>, <<"X", "1">>, <<>>}
ProductNames == {<<"a">>, <<",", "a">>, <<"a", ",", ",", "b">>, <<"a", ",">>}
Numerals == {<<>>, <<"0">>, <<"-", "1">>, <<"2">>, <<" ", "1", ",", "0">>, <<"a">>,
             <<"n", "a", "n">>, <<"-">>}
CustomerIDs == {<<>>, <<"C", "1">>, <<" ">>}
Regions == {<<>>, <<"R">>}
FieldCounts == {7, 8, 9}

RawRecords ==
    {SubSeq(<<t, <<"d">>, <<"P", "1">>, n, q, u, c, r, <<"b">>>>, 1, k) :
        t \in TransactionIDs, n \in ProductNames, q \in Numerals, u \in Numerals,
        c \in CustomerIDs, r \in Regions, k \in FieldCounts}

InitRecord ==
    /\ pc = "record"
    /\ fields \in RawRecords
    /\ verdict = Verdict(FALSE, "")
    /\ cleaned_fields = <<>>
    /\ recleaned_fields = <<>>
    /\ PipelineIdle
    /\ AggregateIdle

IsValidRecord ==
    /\ pc = "record"
    /\ verdict' = is_valid_record(fields)
    /\ pc' = "validated"
    /\ UNCHANGED <<fields, cleaned_fields, recleaned_fields, pipelineVars, aggregateVars, viewVars, enrichVars, validateVars,
                   filterVars, mainVars>>

\* process_records cleans the records is_valid_record accepts
CleanRecord ==
    /\ pc = "validated"
    /\ verdict.is_valid
    /\ cleaned_fields' = clean_record(fields)
    /\ pc' = "cleaned"
    /\ UNCHANGED <<fields, verdict, recleaned_fields, pipelineVars, aggregateVars, viewVars, enrichVars, validateVars,
                   filterVars, mainVars>>

CleanRecordAgain ==
    /\ pc = "cleaned"
    /\ recleaned_fields' = clean_record(cleaned_fields)
    /\ pc' = "recleaned"
    /\ UNCHANGED <<fields, verdict, cleaned_fields, pipelineVars, aggregateVars, viewVars, enrichVars, validateVars,
                   filterVars, mainVars>>

NextRecord == IsValidRecord \/ CleanRecord \/ CleanRecordAgain

SpecRecord == InitRecord /\ [][NextRecord]_vars

(* ---------------------------------------------------------------------- *)
(* Properties of the DataCleaner methods                                   *)
(* ---------------------------------------------------------------------- *)
FieldOf(fs, i) == IF Len(fs) >= i THEN strip(fs[i]) ELSE <<>>

\* the five rules, each on its own: does the record break it, and the
\* reason it is to be reported with
BreaksRule(n, fs) ==
    CASE n = 1 -> Len(fs) < 8
      [] n = 2 -> FieldOf(fs, 7) = <<>> \/ FieldOf(fs, 8) = <<>>
      [] n = 3 -> clean_numeric(FieldOf(fs, 5)).k = "err" \/ fle(clean_numeric(FieldOf(fs, 5)), Num(0))
      [] n = 4 -> clean_numeric(FieldOf(fs, 6)).k = "err" \/ fle(clean_numeric(FieldOf(fs, 6)), Num(0))
      [] n = 5 -> ~startswith(FieldOf(fs, 1), "T")

RuleReason(n, fs) ==
    CASE n = 1 -> "Insufficient fields"
      [] n = 2 -> "Missing CustomerID or Region"
      [] n = 3 -> IF clean_numeric(FieldOf(fs, 5)).k = "err" THEN "Invalid Quantity format" ELSE "Quantity <= 0"
      [] n = 4 -> IF clean_numeric(FieldOf(fs, 6)).k = "err" THEN "Invalid UnitPrice format" ELSE "UnitPrice <= 0"
      [] n = 5 -> "TransactionID not starting with 'T'"

BrokenRules(fs) == {n \in 1..5 : BreaksRule(n, fs)}

\* C1: is_valid_record accepts a record exactly when it breaks none of the
\* five rules, and otherwise reports the reason of the first rule it breaks
\* in the order field count, CustomerID/Region, Quantity (format, then
\* <= 0), UnitPrice (format, then <= 0), TransactionID prefix.
FirstFailingRuleReported ==
    pc # "record" =>
        IF BrokenRules(fields) = {}
        THEN verdict = Verdict(TRUE, "Valid")
        ELSE LET first == CHOOSE n \in BrokenRules(fields) : \A m \in BrokenRules(fields) : n <= m
             IN  verdict = Verdict(FALSE, RuleReason(first, fields))

\* a record that breaks the CustomerID/Region rule, the Quantity rule and
\* the TransactionID rule at once is reported as missing CustomerID or Region
SeveralRulesBroken ==
    /\ pc = "validated"
    /\ {2, 3, 5} \subseteq BrokenRules(fields)
    /\ 1 \notin BrokenRules(fields)
    /\ verdict.reason = "Missing CustomerID or Region"

\* C3: cleaning a cleaned record changes nothing:
\* clean_record(clean_record(x)) = clean_record(x) for every accepted x.
CleanRecordIdempotent ==
    pc = "recleaned" => recleaned_fields = cleaned_fields

(* ---------------------------------------------------------------------- *)
(* The cleaning run of main                                                *)
(* ---------------------------------------------------------------------- *)
\* the lines of an input file: what readlines() gives, each one of
HeaderLine == <<"T", "|", "d", "|", "P", "|", "a", "|", "n", "|", "n", "|", "C", "|", "R", "\n">>
GoodLine == <<"T", "1", "|", "d", "|", "P", "1", "|", "a", "|", "1", "|", "2", "|", "C", "1", "|", "R", "\n">>
\* no line end, blanks around fields, commas in ProductName and Quantity
SpacedLine == <<" ", "T", "2", "|", "d", "|", "P", "1", "|", "a", ",", "b", "|", " ", "1", ",", "0", " ",
                "|", "2", "|", "C", "1", "|", "S">>
\* ProductName begins with a comma; ProductID and CustomerID without P and C
CommaLine == <<"T", "1", "|", "d", "|", "X", "1", "|", ",", "a", "|", "2", "|", "1", "|", "b", "|", "S", "\n">>
NanLine == <<"T", "1", "|", "d", "|", "P", "1", "|", "a", "|", "n", "a", "n", "|", "1", "|", "C", "1", "|", "R", "\n">>
BlankLine == <<" ", "\n">>
ShortLine == <<" ", "X", "1", "|", "d", "\n">>
\* CustomerID blank, Quantity 0, UnitPrice no number, TransactionID without T
MissingLine == <<"X", "1", "|", "d", "|", "P", "1", "|", "a", "|", "0", "|", "a", "|", " ", "|", "R", "\n">>
\* Quantity below 0, UnitPrice no number, TransactionID without T
NegativeLine == <<"X", "1", "|", "d", "|", "P", "1", "|", "a", "|", "-", "1", "|", "a", "|", "C", "1", "|", "R", "\n">>
\* Quantity no number, UnitPrice 0
BadQuantityLine == <<"T", "1", "|", "d", "|", "P", "1", "|", "a", "|", "a", "|", "0", "|", "C", "1", "|", "R", "\n">>
\* UnitPrice 0, TransactionID without T
ZeroPriceLine == <<"X", "1", "|", "d", "|", "P", "1", "|", "a", "|", "1", "|", "0", "|", "C", "1", "|", "R", "\n">>
BadIdLine == <<" ", "X", "1", "|", "d", "|", "P", "1", "|", "a", "|", "1", "|", "1", "|", "C", "1", "|", "R", "\n">>

InputLines == {HeaderLine, GoodLine, SpacedLine, CommaLine, NanLine, BlankLine, ShortLine, MissingLine,
               NegativeLine, BadQuantityLine, ZeroPriceLine, BadIdLine}

Init ==
    /\ pc = "read"
    /\ lines \in SeqsUpTo(InputLines, MaxLines)
    /\ cleaner = NewDataCleaner
    /\ valid_lines = <<>>
    /\ invalid_lines = <<>>
    /\ transactions = <<>>
    /\ rerun = NoRerun
    /\ RecordIdle
    /\ AggregateIdle

\* the cleaner after the call, and the two lists it returned
Returned(out) ==
    /\ cleaner' = [total_records |-> out.total_records, invalid_records |-> out.invalid_records,
                   valid_records |-> out.valid_records, invalid_reasons |-> out.invalid_reasons]
    /\ valid_lines' = out.valid_lines
    /\ invalid_lines' = out.invalid_lines

\* main: valid_lines, invalid_lines = cleaner.process_records(lines)
ProcessRecords ==
    /\ pc = "read"
    /\ Returned(process_records(cleaner, lines))
    /\ pc' = "cleaned"
    /\ UNCHANGED <<lines, transactions, rerun, recordVars, aggregateVars, viewVars, enrichVars, validateVars,
                   filterVars, mainVars>>

\* main: transactions = convert_to_transactions(valid_lines[1:])
ConvertToTransactions ==
    /\ pc = "cleaned"
    /\ transactions' = convert_to_transactions(IF valid_lines = <<>> THEN <<>> ELSE Tail(valid_lines))
    /\ pc' = "converted"
    /\ UNCHANGED <<lines, cleaner, valid_lines, invalid_lines, rerun, recordVars, aggregateVars, viewVars, enrichVars, validateVars,
                   filterVars, mainVars>>

\* DataCleaner().process_records(valid_lines): the pipeline on its own output
ProcessRecordsAgain ==
    /\ pc = "converted"
    /\ rerun' = process_records(NewDataCleaner, valid_lines)
    /\ pc' = "rerun"
    /\ UNCHANGED <<lines, cleaner, valid_lines, invalid_lines, transactions, recordVars, aggregateVars, viewVars, enrichVars, validateVars,
                   filterVars, mainVars>>

Next == ProcessRecords \/ ConvertToTransactions \/ ProcessRecordsAgain

Spec == Init /\ [][Next]_vars

(* ---------------------------------------------------------------------- *)
(* Properties of the cleaning run                                          *)
(* ---------------------------------------------------------------------- *)
Cleaned == pc # "read"
DataLines == IF lines = <<>> THEN <<>> ELSE Tail(lines)
NonBlank(line) == strip(line) # <<>>
Accepted(line) == NonBlank(line) /\ is_valid_record(parse_line(line)).is_valid
Rejected(line) == NonBlank(line) /\ ~is_valid_record(parse_line(line)).is_valid
CleanedForm(line) == create_line(clean_record(parse_line(line)))
Occurrences(q, x) == Cardinality({i \in 1..Len(q) : q[i] = x})
Range(q) == {q[i] : i \in 1..Len(q)}
\* valid_lines[1:]
ValidData == IF valid_lines = <<>> THEN <<>> ELSE Tail(valid_lines)

\* the number a numeric field stands for is above 0
PositiveNumber(value) == clean_numeric(value).k = "num" /\ clean_numeric(value).v > 0

\* C2: every transaction of the store passed the cleaning-time validator:
\* Quantity and UnitPrice parse to numbers above 0, TransactionID starts
\* with T, CustomerID and Region are not empty.
StoreHoldsValidatedTransactions ==
    pc \in {"converted", "rerun"} =>
        \A i \in 1..Len(transactions) :
            /\ PositiveNumber(transactions[i].Quantity)
            /\ PositiveNumber(transactions[i].UnitPrice)
            /\ startswith(transactions[i].TransactionID, "T")
            /\ transactions[i].CustomerID # <<>>
            /\ transactions[i].Region # <<>>

\* C4: process_records of a fresh DataCleaner on the valid_lines of a run
\* rejects nothing and returns the same lines, in the same number.
PipelineIdempotent ==
    pc = "rerun" =>
        /\ rerun.invalid_records = 0
        /\ rerun.invalid_lines = <<>>
        /\ Len(rerun.valid_lines) = Len(valid_lines)
        /\ rerun.valid_lines = valid_lines

\* C5: blank data lines are in neither list and in none of the counters, so
\* total_records = valid_records + invalid_records after a run.
BlankLinesNotCounted ==
    Cleaned =>
        /\ \A line \in Range(DataLines) :
              ~NonBlank(line) => line \notin Range(invalid_lines) /\ line \notin Range(ValidData)
        /\ cleaner.total_records = cleaner.valid_records + cleaner.invalid_records

\* every non-blank data line is in exactly one of the two lists, as often as
\* it is in the input: accepted as its cleaned form, rejected as it came
Partitioned ==
    /\ Len(valid_lines) + Len(invalid_lines)
         = Len(lines) - Cardinality({i \in 1..Len(DataLines) : ~NonBlank(DataLines[i])})
    /\ Len(cleaner.invalid_reasons) = Len(invalid_lines)
    /\ \A i \in 1..Len(DataLines) :
          LET line == DataLines[i]
          IN  /\ Accepted(line) =>
                    Occurrences(ValidData, CleanedForm(line))
                      = Cardinality({j \in 1..Len(DataLines) : Accepted(DataLines[j])
                                        /\ CleanedForm(DataLines[j]) = CleanedForm(line)})
              /\ Rejected(line) =>
                    Occurrences(invalid_lines, line) = Occurrences(SelectSeq(DataLines, Rejected), line)

\* C6 as stated: ... and a rejected line is logged as reason, ": " and the
\* line as it was received.
RejectedLoggedAsReceived ==
    Cleaned =>
        /\ Partitioned
        /\ \A line \in Range(DataLines) :
              Rejected(line) =>
                  <<is_valid_record(parse_line(line)).reason, ":", " ">> \o line
                      \in Range(cleaner.invalid_reasons)

\* C6: every non-blank data line is in exactly one of valid_lines (cleaned
\* and re-joined) and invalid_lines (as it was received), and a rejected
\* line is logged once as reason, ": " and the line without the whitespace
\* around it.
RejectedLoggedStripped ==
    Cleaned =>
        /\ Partitioned
        /\ \A line \in Range(DataLines) :
              Rejected(line) =>
                  Occurrences(cleaner.invalid_reasons,
                              <<is_valid_record(parse_line(line)).reason, ":", " ">> \o strip(line))
                    = Occurrences(SelectSeq(DataLines, Rejected), line)

\* a rejected line with whitespace around it is kept as it came and logged
\* stripped, next to an accepted line
RejectedKeptAndLogged ==
    /\ pc = "cleaned"
    /\ lines = <<HeaderLine, ShortLine, SpacedLine>>
    /\ invalid_lines = <<ShortLine>>
    /\ cleaner.invalid_reasons = <<<<"Insufficient fields", ":", " ", "X", "1", "|", "d">>>>
    /\ Len(valid_lines) = 2

\* C7: within valid_lines, invalid_lines and the reason log the records
\* keep the order of the input.
OrderKept ==
    Cleaned =>
        LET accepted == SelectSeq(DataLines, Accepted)
            rejected == SelectSeq(DataLines, Rejected)
        IN  /\ ValidData = [i \in 1..Len(accepted) |-> CleanedForm(accepted[i])]
            /\ invalid_lines = rejected
            /\ cleaner.invalid_reasons =
                  [i \in 1..Len(rejected) |->
                      ReasonEntry(is_valid_record(parse_line(rejected[i])).reason, rejected[i])]

\* two different accepted lines, and two different rejected lines, come out
\* in input order
TwoInOrder ==
    /\ pc = "cleaned"
    /\ Len(lines) = 3
    /\ \/ /\ Accepted(lines[2]) /\ Accepted(lines[3])
          /\ CleanedForm(lines[2]) # CleanedForm(lines[3])
          /\ valid_lines = <<lines[1], CleanedForm(lines[2]), CleanedForm(lines[3])>>
       \/ /\ Rejected(lines[2]) /\ Rejected(lines[3])
          /\ lines[2] # lines[3]
          /\ invalid_lines = <<lines[2], lines[3]>>

\* C8: the first line of a non-empty input is the first of valid_lines as it
\* came, and it counts in none of total, valid and invalid, whatever it holds.
HeaderPassedThrough ==
    (Cleaned /\ lines # <<>>) =>
        /\ valid_lines # <<>>
        /\ valid_lines[1] = lines[1]
        /\ cleaner.total_records = Len(lines) - 1
        /\ cleaner.valid_records = Len(SelectSeq(DataLines, Accepted))
        /\ cleaner.invalid_records = Len(SelectSeq(DataLines, Rejected))
        /\ Len(valid_lines) = 1 + cleaner.valid_records
        /\ Len(invalid_lines) = cleaner.invalid_records

\* a first line the validator would reject, and one it would accept and
\* change, pass through
HeaderOfAnyContent ==
    /\ pc = "cleaned"
    /\ Len(lines) >= 2
    /\ lines[1] \in {MissingLine, SpacedLine}
    /\ valid_lines[1] = lines[1]
    /\ cleaner.total_records = Len(lines) - 1

(* ---------------------------------------------------------------------- *)
(* The aggregate functions on a transaction set                            *)
(* ---------------------------------------------------------------------- *)
BigPrice == <<"2", ",", "0", "0", "0", ",", "0", "0", "2">>

Tx(region, quantity, unit_price, product_name, customer_id, date) ==
    [TransactionID |-> <<"T", "1">>, Date |-> date, ProductID |-> <<"P", "1">>,
     ProductName |-> product_name, Quantity |-> quantity, UnitPrice |-> unit_price,
     CustomerID |-> customer_id, Region |-> region]

\* the transactions a set is drawn from: small and large amounts, a Quantity
\* and a UnitPrice with a fraction, an amount below 0, a not-a-number
\* Quantity, a Quantity that is no number, an empty UnitPrice
StoreTransactions ==
    {Tx(<<"R">>, <<"1">>, <<"1">>, <<"a">>, <<"C", "1">>, <<"d", "1">>),
     Tx(<<"S">>, <<"1">>, <<"1">>, <<"b">>, <<"C", "2">>, <<"d", "1">>),
     Tx(<<"S">>, <<"2">>, <<"1">>, <<"a">>, <<"C", "1">>, <<"d", "2">>),
     Tx(<<"b">>, <<"1", ".", "5">>, <<"2", ".", "5">>, <<"b">>, <<"C", "1">>, <<"d", "2">>),
     Tx(<<"b">>, <<"2">>, <<"2">>, <<"a">>, <<"C", "2">>, <<"d", "0">>),
     Tx(<<"R">>, <<"1">>, BigPrice, <<"a">>, <<"C", "2">>, <<"d", "1">>),
     Tx(<<"R">>, <<"-", "1">>, BigPrice, <<"a">>, <<"C", "1">>, <<"d", "2">>),
     Tx(<<"S">>, <<"n", "a", "n">>, <<"1">>, <<"b">>, <<"C", "1">>, <<"d", "1">>),
     Tx(<<"R">>, <<"a">>, <<"1">>, <<"b">>, <<"C", "2">>, <<"d", "2">>),
     Tx(<<"S">>, <<"1">>, <<>>, <<"a">>, <<"C", "1">>, <<"d", "0">>)}

\* the n of top_selling_products: fewer than the products there are, and
\* as many
TopCounts == {1, 2}

\* the thresholds of low_performing_products: the default and a small one
Thresholds == {2, 10}

InitAggregate ==
    /\ pc = "store"
    /\ txs \in SeqsUpTo(StoreTransactions, MaxTx)
    /\ total_revenue = Num(0)
    /\ region_sales = <<>>
    /\ ViewsIdle
    /\ EnrichIdle
    /\ ValidateIdle
    /\ FilterIdle
    /\ MainIdle
    /\ RecordIdle
    /\ PipelineIdle

\* main: total_revenue = calculate_total_revenue(transactions)
CalculateTotalRevenue ==
    /\ pc = "store"
    /\ total_revenue' = calculate_total_revenue(txs)
    /\ pc' = "revenue"
    /\ UNCHANGED <<txs, region_sales, recordVars, pipelineVars, viewVars, enrichVars, validateVars,
                   filterVars, mainVars>>

\* main: region_sales = region_wise_sales(transactions)
RegionWiseSales ==
    /\ pc = "revenue"
    /\ region_sales' = region_wise_sales(txs)
    /\ pc' = "regions"
    /\ UNCHANGED <<txs, total_revenue, recordVars, pipelineVars, viewVars, enrichVars, validateVars,
                   filterVars, mainVars>>

\* main: top_products = top_selling_products(transactions, n=5); the n is
\* any of TopCounts
TopSellingProducts ==
    /\ pc = "regions"
    /\ \E k \in TopCounts :
          /\ top_n' = k
          /\ top_products' = top_selling_products(txs, k)
    /\ pc' = "top"
    /\ UNCHANGED <<aggregateVars, customer_stats, daily_trend, peak, low_threshold, low_products,
                   recordVars, pipelineVars, enrichVars, validateVars,
                   filterVars, mainVars>>

\* main: customer_stats = customer_analysis(transactions)
CustomerAnalysis ==
    /\ pc = "top"
    /\ customer_stats' = customer_analysis(txs)
    /\ pc' = "customers"
    /\ UNCHANGED <<aggregateVars, top_n, top_products, daily_trend, peak, low_threshold, low_products,
                   recordVars, pipelineVars, enrichVars, validateVars,
                   filterVars, mainVars>>

\* main: daily_trend = daily_sales_trend(transactions)
DailySalesTrend ==
    /\ pc = "customers"
    /\ daily_trend' = daily_sales_trend(txs)
    /\ pc' = "daily"
    /\ UNCHANGED <<aggregateVars, top_n, top_products, customer_stats, peak, low_threshold, low_products,
                   recordVars, pipelineVars, enrichVars, validateVars,
                   filterVars, mainVars>>

\* main: peak_date, peak_revenue, peak_count = find_peak_sales_day(transactions)
FindPeakSalesDay ==
    /\ pc = "daily"
    /\ peak' = find_peak_sales_day(txs)
    /\ pc' = "peak"
    /\ UNCHANGED <<aggregateVars, top_n, top_products, customer_stats, daily_trend, low_threshold,
                   low_products, recordVars, pipelineVars, enrichVars, validateVars,
                   filterVars, mainVars>>

\* main: low_products = low_performing_products(transactions, threshold=10);
\* the threshold is any of Thresholds
LowPerformingProducts ==
    /\ pc = "peak"
    /\ \E k \in Thresholds :
          /\ low_threshold' = k
          /\ low_products' = low_performing_products(txs, k)
    /\ pc' = "low"
    /\ UNCHANGED <<aggregateVars, top_n, top_products, customer_stats, daily_trend, peak,
                   recordVars, pipelineVars, enrichVars, validateVars,
                   filterVars, mainVars>>

NextAggregate ==
    \/ CalculateTotalRevenue
    \/ RegionWiseSales
    \/ TopSellingProducts
    \/ CustomerAnalysis
    \/ DailySalesTrend
    \/ FindPeakSalesDay
    \/ LowPerformingProducts

SpecAggregate == InitAggregate /\ [][NextAggregate]_vars

(* ---------------------------------------------------------------------- *)
(* Properties of the aggregate functions                                   *)
(* ---------------------------------------------------------------------- *)
\* every Quantity and UnitPrice parses
AllParse == \A i \in 1..Len(txs) : ~Unparseable(txs[i])
\* ... to a number
AllNumbers == \A i \in 1..Len(txs) : ~Unparseable(txs[i]) /\ Revenue(txs[i]).k = "num"

\* sum(values) as Python adds floats, first to last
RECURSIVE FloatSum(_)
FloatSum(q) == IF q = <<>> THEN Num(0) ELSE fadd(FloatSum(SubSeq(q, 1, Len(q) - 1)), q[Len(q)])

\* the sum of integers, without rounding
RECURSIVE Sum(_)
Sum(q) == IF q = <<>> THEN 0 ELSE q[1] + Sum(Tail(q))

RegionTotals == [i \in 1..Len(region_sales) |-> region_sales[i].total_sales]
RegionCounts == [i \in 1..Len(region_sales) |-> region_sales[i].transaction_count]
RegionPercentages == [i \in 1..Len(region_sales) |-> region_sales[i].percentage]

\* C9 as stated: when every Quantity and UnitPrice parses, the total_sales
\* of the regions add up to calculate_total_revenue and the
\* transaction_counts to the number of transactions.
RegionTotalsEqualRevenue ==
    (pc = "regions" /\ AllParse) =>
        /\ FloatSum(RegionTotals) = total_revenue
        /\ Sum(RegionCounts) = Len(txs)

\* C9: when every Quantity and UnitPrice parses, the transaction_counts of
\* the regions add up to the number of transactions, and the total_sales add
\* up to calculate_total_revenue within the rounding of the float additions:
\* both are not-a-number, or they differ by at most
\* n * 2^(1 - MantBits) * (sum of the absolute amounts) for n transactions.
RegionTotalsMatchRevenue ==
    (pc = "regions" /\ AllParse) =>
        /\ Sum(RegionCounts) = Len(txs)
        /\ FloatSum(RegionTotals).k = total_revenue.k
        /\ AllNumbers =>
              /\ total_revenue.k = "num"
              /\ Abs(FloatSum(RegionTotals).v - total_revenue.v)
                   <= (Len(txs) * Sum([i \in 1..Len(txs) |-> Abs(Revenue(txs[i]).v)]))
                        \div Pow2(MantBits - 1)

\* two regions whose totals add up to another float than the revenue
\* accumulated transaction by transaction
RegionTotalsRounded ==
    /\ pc = "regions"
    /\ AllNumbers
    /\ Len(region_sales) >= 2
    /\ FloatSum(RegionTotals) # total_revenue
    /\ Sum(RegionCounts) = Len(txs)

PercentagesComputed ==
    \A i \in 1..Len(region_sales) :
        region_sales[i].percentage = Percent(region_sales[i].total_sales.v, total_revenue.v)

Included == SelectSeq(txs, LAMBDA t : ~Unparseable(t))

\* the product names of the included transactions
ProductsSold == {Included[i].ProductName : i \in 1..Len(Included)}

\* the quantity a product accumulates over the transactions, added up in
\* input order
QuantityIn(included, product_name) ==
    LET of == SelectSeq(included, LAMBDA t : t.ProductName = product_name)
    IN  FloatSum([i \in 1..Len(of) |-> ParseNumber(of[i].Quantity)])

QuantityOf(product_name) == QuantityIn(Included, product_name)

\* the revenue a product accumulates, added up in input order
RevenueOf(product_name) ==
    LET of == SelectSeq(Included, LAMBDA t : t.ProductName = product_name)
    IN  FloatSum([i \in 1..Len(of) |-> Revenue(of[i])])

TopDone == pc \in {"top", "customers", "daily", "peak", "low"}

\* x >= y of two floats

\* C11: top_selling_products(transactions, n) returns at most n entries,
\* the total_quantity of each entry is >= that of the next, and no product
\* left out has a total_quantity above that of a product returned.
TopProductsRanked ==
    TopDone =>
        /\ Len(top_products) <= top_n
        /\ \A i \in 1..Len(top_products) - 1 :
              fge(top_products[i].total_quantity, top_products[i + 1].total_quantity)
        /\ \A i \in 1..Len(top_products) :
              /\ top_products[i].name \in ProductsSold
              /\ top_products[i].total_quantity = QuantityOf(top_products[i].name)
        /\ \A name \in ProductsSold :
              (\A i \in 1..Len(top_products) : top_products[i].name # name) =>
                  \A i \in 1..Len(top_products) :
                      ~fgt(QuantityOf(name), top_products[i].total_quantity)

\* the place of the first of the transactions of a product
FirstSeen(included, product_name) ==
    CHOOSE i \in 1..Len(included) :
        /\ included[i].ProductName = product_name
        /\ \A j \in 1..(i - 1) : included[j].ProductName # product_name

\* the entries name exactly the products whose accumulated quantity is
\* below the threshold, each once
LowProductsExact(included) ==
    LET low == {name \in {included[i].ProductName : i \in 1..Len(included)} :
                   flt(QuantityIn(included, name), FromInt(low_threshold))}
    IN  /\ {low_products[i].name : i \in 1..Len(low_products)} = low
        /\ Len(low_products) = Cardinality(low)

\* C12 as stated: low_performing_products returns exactly the products whose
\* accumulated total_quantity is below the threshold, each once, in ascending
\* order of that accumulated total_quantity.
LowProductsAscending ==
    pc = "low" =>
        LET included == Included
        IN  /\ LowProductsExact(included)
            /\ \A i \in 1..Len(low_products) - 1 :
                  fle(QuantityIn(included, low_products[i].name),
                      QuantityIn(included, low_products[i + 1].name))

\* C12: low_performing_products returns exactly the products whose
\* accumulated total_quantity is below the threshold, each once, with the
\* accumulated quantity cut to its integer part as total_quantity, in
\* ascending order of that integer, products of equal integer in the order
\* they were first seen.
LowProductsAscendingByInt ==
    pc = "low" =>
        LET included == Included
        IN  /\ LowProductsExact(included)
            /\ \A i \in 1..Len(low_products) :
                  low_products[i].total_quantity = int(QuantityIn(included, low_products[i].name))
            /\ \A i \in 1..Len(low_products) - 1 :
                  \/ low_products[i].total_quantity < low_products[i + 1].total_quantity
                  \/ /\ low_products[i].total_quantity = low_products[i + 1].total_quantity
                     /\ FirstSeen(included, low_products[i].name)
                          < FirstSeen(included, low_products[i + 1].name)

\* two products below the threshold with the same integer part, the first
\* seen with the greater quantity, next to a product that is left out
LowProductsCut ==
    /\ pc = "low"
    /\ Len(low_products) = 2
    /\ low_products[1].total_quantity = low_products[2].total_quantity
    /\ fgt(QuantityOf(low_products[1].name), QuantityOf(low_products[2].name))

\* C16: each aggregate function returns for the transactions what it
\* returns for the transactions without those whose Quantity or UnitPrice
\* does not parse: these add to no sum, count, group or product list.
UnparseableExcluded ==
    /\ pc = "revenue" => total_revenue = calculate_total_revenue(Included)
    /\ pc = "regions" => region_sales = region_wise_sales(Included)
    /\ pc = "top" => top_products = top_selling_products(Included, top_n)
    /\ pc = "customers" => customer_stats = customer_analysis(Included)
    /\ pc = "daily" => daily_trend = daily_sales_trend(Included)
    /\ pc = "peak" => peak = find_peak_sales_day(Included)
    /\ pc = "low" => low_products = low_performing_products(Included, low_threshold)
    /\ pc = "low" =>
          LET included == Included
              regions == {included[j].Region : j \in 1..Len(included)}
              customers == {included[j].CustomerID : j \in 1..Len(included)}
              products == {included[j].ProductName : j \in 1..Len(included)}
              dates == {strip(included[j].Date) : j \in 1..Len(included)}
          IN  /\ \A i \in 1..Len(region_sales) : region_sales[i].region \in regions
              /\ \A i \in 1..Len(customer_stats) :
                    /\ customer_stats[i].customer_id \in customers
                    /\ \A k \in 1..Len(customer_stats[i].products_bought) :
                          customer_stats[i].products_bought[k] \in products
              /\ \A i \in 1..Len(daily_trend) : daily_trend[i].date \in dates
              /\ \A i \in 1..Len(top_products) : top_products[i].name \in products
              /\ Sum(RegionCounts) = Len(included)
              /\ Sum([i \in 1..Len(customer_stats) |-> customer_stats[i].purchase_count])
                    = Len(included)
              /\ Sum([i \in 1..Len(daily_trend) |-> daily_trend[i].transaction_count])
                    = Len(included)

\* a transaction that does not parse, the only one of its product and of
\* its date, among transactions that parse
UnparseableAmongOthers ==
    /\ pc = "low"
    /\ Included # <<>>
    /\ \E i \in 1..Len(txs) :
          /\ Unparseable(txs[i])
          /\ txs[i].ProductName \notin ProductsSold
          /\ \A j \in 1..Len(Included) : Included[j].Date # txs[i].Date

\* C17: for no transactions find_peak_sales_day returns (None, 0.0, 0),
\* calculate_total_revenue 0.0, and region_wise_sales, top_selling_products,
\* customer_analysis, daily_sales_trend and low_performing_products return
\* nothing.
EmptySetGivesEmptyViews ==
    (pc = "low" /\ txs = <<>>) =>
        /\ peak = [date |-> None, revenue |-> Num(0), transaction_count |-> 0]
        /\ total_revenue = Num(0)
        /\ region_sales = <<>>
        /\ top_products = <<>>
        /\ customer_stats = <<>>
        /\ daily_trend = <<>>
        /\ low_products = <<>>

\* every view of no transactions is computed
EmptySetViewed ==
    /\ pc = "low"
    /\ txs = <<>>
    /\ top_n > 0
    /\ low_threshold > 0
    /\ peak.date = None

(* ---------------------------------------------------------------------- *)
(* Enrichment: create_product_mapping and enrich_sales_data                *)
(* ---------------------------------------------------------------------- *)
\* an int of the payload
IntValue(i) == [k |-> "int", v |-> i]

\* the products a payload is drawn from: complete, without a brand, with a
\* null brand under an id that occurs twice, without an id
ApiProducts ==
    {[id |-> IntValue(1), title |-> StrKey(<<"t">>), category |-> StrKey(<<"c">>),
      brand |-> StrKey(<<"b">>), rating |-> Num(18)],
     [id |-> IntValue(2), title |-> StrKey(<<"t">>), category |-> StrKey(<<"c">>), rating |-> Num(16)],
     [id |-> IntValue(1), title |-> StrKey(<<"t">>), category |-> StrKey(<<"a">>),
      brand |-> None, rating |-> Num(8)],
     [title |-> StrKey(<<"t">>), category |-> StrKey(<<"c">>), brand |-> StrKey(<<"b">>),
      rating |-> Num(4)]}

\* a transaction with the ProductID
Sale(product_id) ==
    [TransactionID |-> <<"T", "1">>, Date |-> <<"d", "1">>, ProductID |-> product_id,
     ProductName |-> <<"a">>, Quantity |-> <<"1">>, UnitPrice |-> <<"2">>,
     CustomerID |-> <<"C", "1">>, Region |-> <<"R">>]

\* a transaction without a ProductID
SaleWithoutProductID ==
    [TransactionID |-> <<"T", "2">>, Date |-> <<"d", "1">>,
     ProductName |-> <<"a">>, Quantity |-> <<"1">>, UnitPrice |-> <<"2">>,
     CustomerID |-> <<"C", "1">>, Region |-> <<"R">>]

\* ids in the lookup, an id that is not, a number without the prefix, and
\* the ProductIDs that are no number
ProductIDs == {<<"P", "1">>, <<"P", "2">>, <<"P", "5">>, <<"1">>, <<"X", "1">>, <<"P", "a">>, <<>>}

SalesToEnrich == {Sale(id) : id \in ProductIDs} \cup {SaleWithoutProductID}

InitEnrich ==
    /\ pc = "products"
    /\ api_products \in SeqsUpTo(ApiProducts, MaxProducts)
    /\ product_mapping = <<>>
    /\ sales \in SeqsUpTo(SalesToEnrich, MaxSales)
    /\ sales_after = sales
    /\ enriched_transactions = <<>>
    /\ RecordIdle
    /\ PipelineIdle
    /\ txs = <<>>
    /\ total_revenue = Num(0)
    /\ region_sales = <<>>
    /\ ViewsIdle
    /\ ValidateIdle
    /\ FilterIdle
    /\ MainIdle

\* main: product_mapping = create_product_mapping(api_products)
CreateProductMapping ==
    /\ pc = "products"
    /\ product_mapping' = create_product_mapping(api_products)
    /\ pc' = "mapped"
    /\ UNCHANGED <<api_products, sales, sales_after, enriched_transactions, recordVars, pipelineVars,
                   aggregateVars, viewVars, validateVars, filterVars, mainVars>>

\* main: enriched_transactions = enrich_sales_data(transactions, product_mapping)
EnrichSalesData ==
    /\ pc = "mapped"
    /\ LET returned == enrich_sales_data(sales_after, product_mapping)
       IN  /\ sales_after' = returned.transactions
           /\ enriched_transactions' = returned.enriched_transactions
    /\ pc' = "enriched"
    /\ UNCHANGED <<api_products, product_mapping, sales, recordVars, pipelineVars,
                   aggregateVars, viewVars, validateVars, filterVars, mainVars>>

NextEnrich == CreateProductMapping \/ EnrichSalesData

SpecEnrich == InitEnrich /\ [][NextEnrich]_vars

\* the text is an integer literal: optional sign, digits, whitespace around
NumericText(text) ==
    LET t == strip(text)
        body == IF t # <<>> /\ t[1] = "-" THEN Tail(t) ELSE t
    IN  body # <<>> /\ \A i \in 1..Len(body) : body[i] \in {"0", "1", "2", "5"}

\* the text of the key of a ProductID: what follows a leading P, else all
KeyText(transaction) ==
    LET product_id == IF "ProductID" \in DOMAIN transaction THEN transaction.ProductID ELSE <<>>
    IN  IF product_id # <<>> /\ product_id[1] = "P" THEN Tail(product_id) ELSE product_id

\* the numeric key of the ProductID is a key of the lookup
KeyInLookup(transaction) ==
    /\ NumericText(KeyText(transaction))
    /\ int_of_str(KeyText(transaction)).v \in DOMAIN product_mapping

ApiFields == {"API_Category", "API_Brand", "API_Rating"}

AllNull(record) == \A f \in ApiFields : f \in DOMAIN record /\ record[f].k = "none"
NoneNull(record) == \A f \in ApiFields : f \in DOMAIN record /\ record[f].k # "none"

\* C13: API_Match is true exactly for the records whose numeric key is in
\* the lookup, and then no API field is null; for the others API_Match is
\* false and the three API fields are null; API_Match is in every record and
\* is true iff the three API fields are non-null.
MatchIffFieldsPresent ==
    pc = "enriched" =>
        \A i \in 1..Len(enriched_transactions) :
            LET record == enriched_transactions[i]
            IN  /\ "API_Match" \in DOMAIN record
                /\ record.API_Match = KeyInLookup(sales[i])
                /\ record.API_Match => NoneNull(record)
                /\ ~record.API_Match => AllNull(record)
                /\ record.API_Match <=> NoneNull(record)

\* the ProductID is missing, empty, or no number with or without the prefix
Malformed(transaction) ==
    \/ "ProductID" \notin DOMAIN transaction
    \/ transaction.ProductID = <<>>
    \/ transaction.ProductID[1] # "P" /\ ~NumericText(transaction.ProductID)
    \/ transaction.ProductID[1] = "P" /\ ~NumericText(Tail(transaction.ProductID))

\* the ProductID is a number that is no key of the lookup
Absent(transaction) == NumericText(KeyText(transaction)) /\ ~KeyInLookup(transaction)

\* C14: enrich_sales_data returns a record for every transaction; the
\* record of a transaction whose ProductID is missing, empty or no number
\* has API_Match false and the three API fields null, as the record of a
\* transaction whose id is not in the lookup has.
MalformedIsNoMatch ==
    pc = "enriched" =>
        /\ Len(enriched_transactions) = Len(sales)
        /\ \A i \in 1..Len(sales) :
              (Malformed(sales[i]) \/ Absent(sales[i])) =>
                  /\ enriched_transactions[i].API_Match = FALSE
                  /\ AllNull(enriched_transactions[i])

\* a transaction whose ProductID is no number, then one that matches
MalformedThenMatch ==
    /\ pc = "enriched"
    /\ Len(sales) = 2
    /\ Malformed(sales[1])
    /\ ~enriched_transactions[1].API_Match
    /\ enriched_transactions[2].API_Match

\* C15: after enrich_sales_data the transactions handed over are as they
\* were, without API fields; the result has their length and order, and
\* each record has the fields of the transaction at its place with the same
\* values.
InputNotMutated ==
    pc = "enriched" =>
        /\ sales_after = sales
        /\ \A i \in 1..Len(sales_after) : DOMAIN sales_after[i] \cap (ApiFields \cup {"API_Match"}) = {}
        /\ Len(enriched_transactions) = Len(sales)
        /\ \A i \in 1..Len(sales) :
              \A key \in DOMAIN sales[i] :
                  /\ key \in DOMAIN enriched_transactions[i]
                  /\ enriched_transactions[i][key] = sales[i][key]

\* two different transactions enriched, one with a match
TwoEnriched ==
    /\ pc = "enriched"
    /\ Len(sales) = 2
    /\ sales[1] # sales[2]
    /\ enriched_transactions[1].API_Match
    /\ enriched_transactions[1].TransactionID = sales[1].TransactionID
    /\ sales_after = sales

(* ---------------------------------------------------------------------- *)
(* validate_transaction on one transaction                                 *)
(* ---------------------------------------------------------------------- *)
Candidate(transaction_id, product_id, customer_id, quantity, unit_price, region) ==
    Transaction(<<transaction_id, <<"d", "1">>, product_id, <<"a">>, quantity, unit_price, customer_id, region>>)

\* the dict without one of its keys
WithoutKey(transaction, key) == [k \in DOMAIN transaction \ {key} |-> transaction[k]]

\* values of each field: empty, well formed, with the wrong prefix; numbers
\* above 0, 0, below 0, not-a-number, no number, with a space or a comma
CandidateQuantities ==
    {<<>>, <<"1">>, <<"0">>, <<"-", "1">>, <<"n", "a", "n">>, <<"a">>, <<" ", "1">>, <<",", "1">>}

CandidateUnitPrices == {<<>>, <<"2">>, <<"0">>, <<"n", "a", "n">>, <<"a">>}

CandidateRegions == {<<>>, <<" ">>, <<"R">>}

FullCandidates ==
    {Candidate(transaction_id, product_id, customer_id, quantity, unit_price, region) :
        transaction_id \in {<<>>, <<"T", "1">>, <<"X", "1">>},
        product_id \in {<<>>, <<"P", "1">>, <<"X", "1">>},
        customer_id \in {<<>>, <<"C", "1">>, <<"X", "1">>},
        quantity \in CandidateQuantities,
        unit_price \in CandidateUnitPrices,
        region \in CandidateRegions}

\* and the transactions that lack one key
Candidates ==
    FullCandidates \cup
    {WithoutKey(Candidate(<<"T", "1">>, <<"P", "1">>, customer_id, quantity, <<"2">>, <<"R">>), key) :
        customer_id \in {<<"C", "1">>, <<"X", "1">>},
        quantity \in {<<"1">>, <<"0">>, <<"a">>},
        key \in {"TransactionID", "Date", "ProductID", "ProductName", "Quantity", "UnitPrice",
                 "CustomerID", "Region"}}

InitValidate ==
    /\ pc = "candidate"
    /\ candidate \in Candidates
    /\ candidate_verdict = Verdict(FALSE, "")
    /\ RecordIdle
    /\ PipelineIdle
    /\ txs = <<>>
    /\ total_revenue = Num(0)
    /\ region_sales = <<>>
    /\ ViewsIdle
    /\ EnrichIdle
    /\ FilterIdle
    /\ MainIdle

\* is_valid, reason = validate_transaction(transaction)
ValidateTransaction ==
    /\ pc = "candidate"
    /\ candidate_verdict' = validate_transaction(candidate)
    /\ pc' = "checked"
    /\ UNCHANGED <<candidate, recordVars, pipelineVars, aggregateVars, viewVars, enrichVars, filterVars, mainVars>>

NextValidate == ValidateTransaction

SpecValidate == InitValidate /\ [][NextValidate]_vars

\* the field is a key of the transaction and its value is not empty
Present(transaction, field) == field \in DOMAIN transaction /\ transaction[field] # <<>>

\* the text parses to a number above 0
ParsesAboveZero(text) == ParseNumber(text).k = "num" /\ ParseNumber(text).v > 0

\* the ten rules of the validator, each on its own, in the order the claim
\* gives: the five required fields, Quantity, UnitPrice, the three prefixes
BreaksValidatorRule(n, transaction) ==
    CASE n \in 1..5 -> ~Present(transaction, required_fields[n])
      [] n = 6 -> Present(transaction, "Quantity") /\ ~ParsesAboveZero(transaction.Quantity)
      [] n = 7 -> Present(transaction, "UnitPrice") /\ ~ParsesAboveZero(transaction.UnitPrice)
      [] n = 8 -> Present(transaction, "TransactionID") /\ ~startswith(transaction.TransactionID, "T")
      [] n = 9 -> Present(transaction, "ProductID") /\ ~startswith(transaction.ProductID, "P")
      [] n = 10 -> Present(transaction, "CustomerID") /\ ~startswith(transaction.CustomerID, "C")

ValidatorRuleReason(n, transaction) ==
    CASE n \in 1..5 -> MissingReason(required_fields[n])
      [] n = 6 -> IF ParseNumber(transaction.Quantity).k = "err"
                  THEN "Invalid Quantity format" ELSE "Quantity must be > 0"
      [] n = 7 -> IF ParseNumber(transaction.UnitPrice).k = "err"
                  THEN "Invalid UnitPrice format" ELSE "UnitPrice must be > 0"
      [] n = 8 -> "TransactionID must start with 'T'"
      [] n = 9 -> "ProductID must start with 'P'"
      [] n = 10 -> "CustomerID must start with 'C'"

BrokenValidatorRules(transaction) == {n \in 1..10 : BreaksValidatorRule(n, transaction)}

\* C18: validate_transaction accepts a transaction exactly when the five
\* required fields are present and not empty, Quantity and UnitPrice parse to
\* values above 0, and TransactionID, ProductID and CustomerID start with
\* 'T', 'P' and 'C'; otherwise it reports the reason of the first failing
\* rule in the order missing field, numeric checks, prefix checks.
ValidatorFirstFailingRule ==
    pc = "checked" =>
        LET broken == BrokenValidatorRules(candidate)
        IN  IF broken = {}
            THEN candidate_verdict = Verdict(TRUE, "Valid")
            ELSE candidate_verdict =
                     Verdict(FALSE, ValidatorRuleReason(CHOOSE n \in broken : \A m \in broken : n <= m,
                                                        candidate))

\* the 8 fields of the transaction as a raw record, in the order of the
\* input file; a key the transaction lacks gives no field
RawFieldNames ==
    <<"TransactionID", "Date", "ProductID", "ProductName", "Quantity", "UnitPrice", "CustomerID", "Region">>

RawOf(transaction) ==
    LET present == SelectSeq(RawFieldNames, LAMBDA key : key \in DOMAIN transaction)
    IN  [i \in 1..Len(present) |-> transaction[present[i]]]

\* C19: every transaction validate_transaction accepts satisfies every rule
\* of is_valid_record when its 8 fields are presented as a raw record.
AcceptedSatisfiesCleaningRules ==
    pc = "checked" /\ candidate_verdict.is_valid => BrokenRules(RawOf(candidate)) = {}

\* C19, as the code has it: an accepted transaction that has all 8 fields
\* and a Region that is not blank satisfies every rule of is_valid_record.
AcceptedWithRegionSatisfiesCleaningRules ==
    pc = "checked" /\ candidate_verdict.is_valid
        /\ DOMAIN candidate = {RawFieldNames[i] : i \in 1..8}
        /\ strip(candidate.Region) # <<>>
        => /\ BrokenRules(RawOf(candidate)) = {}
           /\ is_valid_record(RawOf(candidate)) = Verdict(TRUE, "Valid")

\* an accepted transaction with a Region, which is_valid_record accepts too
AcceptedByBoth ==
    /\ pc = "checked"
    /\ candidate_verdict.is_valid
    /\ DOMAIN candidate = {RawFieldNames[i] : i \in 1..8}
    /\ candidate.Region = <<"R">>
    /\ is_valid_record(RawOf(candidate)).is_valid

(* ---------------------------------------------------------------------- *)
(* validate_and_filter on a list of transactions                           *)
(* ---------------------------------------------------------------------- *)
\* valid transactions of amounts 2, 10, 1 and 3.75 in regions r, R and S,
\* one with a CustomerID the validator rejects, one with a not-a-number
\* Quantity, one without a Region
FilterPool ==
    {Candidate(<<"T", "1">>, <<"P", "1">>, <<"C", "1">>, <<"1">>, <<"2">>, <<"r">>),
     Candidate(<<"T", "2">>, <<"P", "1">>, <<"C", "1">>, <<"5">>, <<"2">>, <<"R">>),
     Candidate(<<"T", "5">>, <<"P", "1">>, <<"C", "1">>, <<"1">>, <<"1">>, <<"S">>),
     Candidate(<<"T", "1">>, <<"P", "1">>, <<"X", "1">>, <<"1">>, <<"2">>, <<"R">>),
     Candidate(<<"T", "2">>, <<"P", "1">>, <<"C", "1">>, <<"n", "a", "n">>, <<"2">>, <<"r">>),
     Candidate(<<"T", "5">>, <<"P", "1">>, <<"C", "1">>, <<"1", ".", "5">>, <<"2", ".", "5">>, <<"r">>),
     WithoutKey(Candidate(<<"T", "1">>, <<"P", "1">>, <<"C", "1">>, <<"2">>, <<"2">>, <<"R">>), "Region")}

FilterRegions == {None, StrKey(<<"r">>), StrKey(<<"S">>)}
FilterMinAmounts == {None, FromInt(0), FromInt(2)}
FilterMaxAmounts == {None, FromInt(2), FromInt(10)}

InitFilter ==
    /\ pc = "unfiltered"
    /\ filter_txs \in SeqsUpTo(FilterPool, MaxFilter)
    /\ filter_region \in FilterRegions
    /\ filter_min \in FilterMinAmounts
    /\ filter_max \in FilterMaxAmounts
    /\ filtered = NotFiltered
    /\ RecordIdle
    /\ PipelineIdle
    /\ txs = <<>>
    /\ total_revenue = Num(0)
    /\ region_sales = <<>>
    /\ ViewsIdle
    /\ EnrichIdle
    /\ ValidateIdle
    /\ MainIdle

\* validate_and_filter(transactions, region, min_amount, max_amount)
ValidateAndFilter ==
    /\ pc = "unfiltered"
    /\ filtered' = validate_and_filter(filter_txs, filter_region, filter_min, filter_max)
    /\ pc' = "filtered"
    /\ UNCHANGED <<filter_txs, filter_region, filter_min, filter_max, recordVars, pipelineVars,
                   aggregateVars, viewVars, enrichVars, validateVars, mainVars>>

NextFilter == ValidateAndFilter

SpecFilter == InitFilter /\ [][NextFilter]_vars

\* (b) no region filter, or a Region equal to it ignoring case
RegionMatches(t) ==
    filter_region.k = "none" \/ ("Region" \in DOMAIN t /\ lower(t.Region) = lower(filter_region.v))

\* (c) min_amount <= amount <= max_amount, an absent bound being open
AmountWithin(t) ==
    /\ filter_min.k = "none" \/ fle(filter_min, Revenue(t))
    /\ filter_max.k = "none" \/ fle(Revenue(t), filter_max)

\* C20: validate_and_filter returns exactly the input transactions that
\* pass validate_transaction, match the region filter ignoring case when one
\* is given, and have min_amount <= Quantity * UnitPrice <= max_amount for
\* the bounds given, in their input order; no invalid transaction is in the
\* result.
FilteredExactly ==
    pc = "filtered" =>
        /\ filtered.valid_transactions =
               SelectSeq(filter_txs, LAMBDA t :
                   validate_transaction(t).is_valid /\ RegionMatches(t) /\ AmountWithin(t))
        /\ \A i \in 1..Len(filtered.valid_transactions) :
               validate_transaction(filtered.valid_transactions[i]).is_valid

\* the places of the input whose transaction passes validate_transaction,
\* and those of them that match the region filter
ValidPlaces == {i \in 1..Len(filter_txs) : validate_transaction(filter_txs[i]).is_valid}
RegionPlaces == {i \in ValidPlaces : RegionMatches(filter_txs[i])}

\* C21: the counts of the funnel summary are the deltas of the stages in
\* the order validate, region, amount: invalid counts the inputs failing
\* validation, filtered_by_region the validated transactions the region
\* filter removed (0 without a region), filtered_by_amount the survivors of
\* the region stage the amount filter removed (0 without a bound), and
\* final_count is the length of the returned list.
FunnelCountsAreStageDeltas ==
    pc = "filtered" =>
        LET summary == filtered.filter_summary
        IN  /\ summary.invalid = Len(filter_txs) - Cardinality(ValidPlaces)
            /\ summary.filtered_by_region = Cardinality(ValidPlaces) - Cardinality(RegionPlaces)
            /\ filter_region = None => summary.filtered_by_region = 0
            /\ summary.filtered_by_amount = Cardinality(RegionPlaces) - Len(filtered.valid_transactions)
            /\ (filter_min = None /\ filter_max = None) => summary.filtered_by_amount = 0
            /\ summary.final_count = Len(filtered.valid_transactions)
            /\ \A i \in 1..Len(filtered.valid_transactions) :
                   \E j \in RegionPlaces : filter_txs[j] = filtered.valid_transactions[i]

\* an invalid transaction and a valid one that fails the region filter and
\* the amount filter alike: the second is counted by the region stage
CountedByFirstFailingStage ==
    /\ pc = "filtered"
    /\ Len(filter_txs) = 2
    /\ ~validate_transaction(filter_txs[1]).is_valid
    /\ validate_transaction(filter_txs[2]).is_valid
    /\ ~RegionMatches(filter_txs[2])
    /\ ~AmountWithin(filter_txs[2])
    /\ filtered.filter_summary.invalid = 1
    /\ filtered.filter_summary.filtered_by_region = 1
    /\ filtered.filter_summary.filtered_by_amount = 0

\* C29: the summary of validate_and_filter conserves the input:
\* total_input = invalid + filtered_by_region + filtered_by_amount +
\* final_count, no count is below 0, and the returned invalid_count is the
\* invalid of the summary.
FunnelConserved ==
    pc = "filtered" =>
        LET summary == filtered.filter_summary
        IN  /\ summary.total_input = Len(filter_txs)
            /\ summary.total_input = summary.invalid + summary.filtered_by_region
                                         + summary.filtered_by_amount + summary.final_count
            /\ summary.invalid >= 0
            /\ summary.filtered_by_region >= 0
            /\ summary.filtered_by_amount >= 0
            /\ summary.final_count >= 0
            /\ filtered.invalid_count = summary.invalid

\* a region filter and an amount bound given: one transaction removed by
\* the region stage and one that passes all stages
OneRemovedOneKept ==
    /\ pc = "filtered"
    /\ filter_region # None
    /\ filter_max # None
    /\ filtered.filter_summary.total_input = 2
    /\ filtered.filter_summary.filtered_by_region = 1
    /\ filtered.filter_summary.final_count = 1

(* ---------------------------------------------------------------------- *)
(* main: one run from the lines read to the report                         *)
(* ---------------------------------------------------------------------- *)
\* a value of the JSON payload: an object, an array, null
JsonObject(members) == [k |-> "object", v |-> members]
JsonArray(items) == [k |-> "array", v |-> items]
JsonNull == [k |-> "null", v |-> <<>>]

\* the items of a products array: two product objects and a number
PayloadItems ==
    {JsonObject([id |-> IntValue(1), title |-> StrKey(<<"t">>), category |-> StrKey(<<"c">>),
                 brand |-> StrKey(<<"b">>), rating |-> Num(18)]),
     JsonObject([title |-> StrKey(<<"t">>), category |-> StrKey(<<"c">>), brand |-> StrKey(<<"b">>),
                 rating |-> Num(4)]),
     IntValue(1)}

\* what requests.get and response.json() can give: the two exceptions of
\* the request, a status other than 200, a body that is no JSON, and JSON
\* bodies: an array, an object without products, with products null, with a
\* products array
Responses ==
    {[k |-> "connection_error", v |-> <<>>],
     [k |-> "timeout", v |-> <<>>],
     [k |-> "status", v |-> <<>>],
     [k |-> "no_json", v |-> <<>>],
     [k |-> "json", v |-> JsonArray(<<IntValue(1)>>)],
     [k |-> "json", v |-> JsonObject([total |-> IntValue(0)])],
     [k |-> "json", v |-> JsonObject([products |-> JsonNull])]}
    \cup {[k |-> "json", v |-> JsonObject([products |-> JsonArray(items)])] :
             items \in SeqsUpTo(PayloadItems, MaxProducts)}

\* products = data.get('products', []) and len(products) of a JSON body;
\* an AttributeError or TypeError ends in the last except clause
ProductsOf(data) ==
    IF data.k # "object" THEN <<>>
    ELSE IF "products" \notin DOMAIN data.v THEN <<>>
    ELSE IF data.v.products.k = "null" THEN <<>>
    ELSE data.v.products.v

fetch_all_products(answer) == IF answer.k = "json" THEN ProductsOf(answer.v) ELSE <<>>

\* the input files of a run: empty, a header only, records kept and rejected
MainInputs ==
    {<<>>, <<HeaderLine>>, <<HeaderLine, GoodLine>>, <<HeaderLine, GoodLine, MissingLine>>,
     <<HeaderLine, SpacedLine, GoodLine>>, <<HeaderLine, CommaLine>>}

InitMain ==
    /\ pc = "read"
    /\ lines \in MainInputs
    /\ response \in Responses
    /\ lookups = 0
    /\ enriched = None
    /\ report_calls = 0
    /\ cleaner = NewDataCleaner
    /\ valid_lines = <<>>
    /\ invalid_lines = <<>>
    /\ transactions = <<>>
    /\ rerun = NoRerun
    /\ RecordIdle
    /\ txs = <<>>
    /\ total_revenue = Num(0)
    /\ region_sales = <<>>
    /\ ViewsIdle
    /\ EnrichIdle
    /\ ValidateIdle
    /\ FilterIdle

\* main, part 2: the seven analytics functions on the transactions
RunAnalytics ==
    /\ pc = "converted"
    /\ txs' = transactions
    /\ total_revenue' = calculate_total_revenue(transactions)
    /\ region_sales' = region_wise_sales(transactions)
    /\ top_n' = 5
    /\ top_products' = top_selling_products(transactions, 5)
    /\ customer_stats' = customer_analysis(transactions)
    /\ daily_trend' = daily_sales_trend(transactions)
    /\ peak' = find_peak_sales_day(transactions)
    /\ low_threshold' = 10
    /\ low_products' = low_performing_products(transactions, 10)
    /\ pc' = "analysed"
    /\ UNCHANGED <<recordVars, pipelineVars, enrichVars, validateVars, filterVars, mainVars>>

\* main: api_products = fetch_all_products(); enriched_transactions = None
FetchAllProducts ==
    /\ pc = "analysed"
    /\ lookups' = lookups + 1
    /\ api_products' = fetch_all_products(response)
    /\ enriched' = None
    /\ pc' = "fetched"
    /\ UNCHANGED <<response, report_calls, product_mapping, sales, sales_after, enriched_transactions,
                   recordVars, pipelineVars, aggregateVars, viewVars, validateVars, filterVars>>

\* main, if api_products: create_product_mapping(api_products); product.get
\* of an item that is no object raises AttributeError, which nothing in
\* main catches
MainCreateProductMapping ==
    /\ pc = "fetched"
    /\ api_products # <<>>
    /\ IF \E i \in 1..Len(api_products) : api_products[i].k # "object"
       THEN /\ pc' = "aborted"
            /\ UNCHANGED product_mapping
       ELSE /\ product_mapping' = create_product_mapping([i \in 1..Len(api_products) |-> api_products[i].v])
            /\ pc' = "products_mapped"
    /\ UNCHANGED <<api_products, sales, sales_after, enriched_transactions, recordVars, pipelineVars,
                   aggregateVars, viewVars, validateVars, filterVars, mainVars>>

\* main: enrich_sales_data, the two save_enriched_data and the summary
MainEnrichSalesData ==
    /\ pc = "products_mapped"
    /\ enriched' = [k |-> "list", v |-> enrich_sales_data(transactions, product_mapping).enriched_transactions]
    /\ pc' = "integrated"
    /\ UNCHANGED <<response, lookups, report_calls, enrichVars, recordVars, pipelineVars, aggregateVars,
                   viewVars, validateVars, filterVars>>

\* main, else: API integration skipped
SkipApiIntegration ==
    /\ pc = "fetched"
    /\ api_products = <<>>
    /\ pc' = "skipped"
    /\ UNCHANGED <<enrichVars, recordVars, pipelineVars, aggregateVars, viewVars, validateVars, filterVars,
                   mainVars>>

\* main, part 4: generate_sales_report(transactions, enriched_transactions)
GenerateSalesReport ==
    /\ pc \in {"integrated", "skipped"}
    /\ report_calls' = report_calls + 1
    /\ pc' = "reported"
    /\ UNCHANGED <<response, lookups, enriched, enrichVars, recordVars, pipelineVars, aggregateVars,
                   viewVars, validateVars, filterVars>>

NextMain ==
    \/ ProcessRecords
    \/ ConvertToTransactions
    \/ RunAnalytics
    \/ FetchAllProducts
    \/ MainCreateProductMapping
    \/ MainEnrichSalesData
    \/ SkipApiIntegration
    \/ GenerateSalesReport

\* once main has asked the product API it runs on as long as it has a next
\* statement
SpecMain ==
    /\ InitMain
    /\ [][NextMain]_vars
    /\ WF_vars(MainCreateProductMapping)
    /\ WF_vars(MainEnrichSalesData)
    /\ WF_vars(SkipApiIntegration)
    /\ WF_vars(GenerateSalesReport)

\* the lookup failed or gave no product
NoProducts == fetch_all_products(response) = <<>>

\* cleaning and the analytics of part 2 are done
CleanedAndAnalysed ==
    /\ valid_lines = process_records(NewDataCleaner, lines).valid_lines
    /\ transactions = convert_to_transactions(IF valid_lines = <<>> THEN <<>> ELSE Tail(valid_lines))
    /\ txs = transactions
    /\ total_revenue = calculate_total_revenue(transactions)
    /\ top_n = 5
    /\ low_threshold = 10

\* C22: once the lines are read, every outcome of the product lookup is
\* followed by report generation; the lookup happens at most once, a failed
\* or empty lookup leaves the enriched data None without enrich or save, and
\* cleaning and the analytics are complete before the lookup and stay as
\* they were.
LookupFollowedByReport ==
    /\ [](lookups <= 1)
    /\ [](lookups = 1 => CleanedAndAnalysed)
    /\ [](lookups = 1 /\ NoProducts => enriched = None /\ pc \in {"fetched", "skipped", "reported"})
    /\ (lookups = 1 ~> report_calls = 1)

(* ---------------------------------------------------------------------- *)
(* The store and the identity prefixes of the data model                   *)
(* ---------------------------------------------------------------------- *)
\* C23: every transaction of the store the cleaning pipeline produced has
\* a ProductID starting with 'P' and a CustomerID starting with 'C', next to
\* a TransactionID starting with 'T'.
StoreSatisfiesPrefixRules ==
    pc \in {"converted", "rerun"} =>
        \A i \in 1..Len(transactions) :
            /\ startswith(transactions[i].TransactionID, "T")
            /\ startswith(transactions[i].ProductID, "P")
            /\ startswith(transactions[i].CustomerID, "C")

(* ---------------------------------------------------------------------- *)
(* The peak day, the order of the groups and the sums across the views     *)
(* ---------------------------------------------------------------------- *)
\* the places of daily_sales_trend's mapping whose entry the returned peak is
PeakPlaces ==
    {i \in 1..Len(daily_trend) :
        /\ peak.date = StrKey(daily_trend[i].date)
        /\ peak.revenue = daily_trend[i].revenue
        /\ peak.transaction_count = daily_trend[i].transaction_count}

\* C24 as stated: for a non-empty transaction set the peak is an entry of
\* daily_sales_trend whose revenue is at least every entry's revenue, the
\* first of the mapping among those with that revenue.
PeakIsFirstMaximalDay ==
    (pc = "peak" /\ txs # <<>>) =>
        \E i \in PeakPlaces :
            /\ \A j \in 1..Len(daily_trend) : fge(daily_trend[i].revenue, daily_trend[j].revenue)
            /\ \A j \in 1..(i - 1) : daily_trend[j].revenue # daily_trend[i].revenue

\* C24: when daily_sales_trend has an entry, the peak is an entry no
\* entry's revenue is greater than; when every revenue is a number it is the
\* first entry of the mapping with the greatest revenue.
PeakIsFirstMaximalOfTrend ==
    (pc = "peak" /\ daily_trend # <<>>) =>
        \E i \in PeakPlaces :
            /\ \A j \in 1..Len(daily_trend) : ~fgt(daily_trend[j].revenue, daily_trend[i].revenue)
            /\ (\A j \in 1..Len(daily_trend) : daily_trend[j].revenue.k = "num") =>
                  /\ \A j \in 1..Len(daily_trend) : fge(daily_trend[i].revenue, daily_trend[j].revenue)
                  /\ \A j \in 1..(i - 1) : flt(daily_trend[j].revenue, daily_trend[i].revenue)

\* two days with the same revenue, the later date seen first in the input:
\* the peak is the earlier date
PeakAmongEqualDays ==
    /\ pc = "peak"
    /\ Len(daily_trend) = 2
    /\ feq(daily_trend[1].revenue, daily_trend[2].revenue)
    /\ strip(txs[1].Date) = daily_trend[2].date
    /\ peak.date = StrKey(daily_trend[1].date)

\* the place of the first of the transactions of a region
RegionFirstSeen(included, region) ==
    CHOOSE i \in 1..Len(included) :
        /\ included[i].Region = region
        /\ \A j \in 1..(i - 1) : included[j].Region # region

\* C25: region_wise_sales returns its groups by total_sales descending,
\* groups with the same total_sales in the order in which their Region was
\* first seen in the input.
RegionsDescendingStable ==
    pc \in {"regions", "top", "customers", "daily", "peak", "low"} =>
        \A i \in 1..Len(region_sales) - 1 :
            \/ fgt(region_sales[i].total_sales, region_sales[i + 1].total_sales)
            \/ /\ feq(region_sales[i].total_sales, region_sales[i + 1].total_sales)
               /\ RegionFirstSeen(Included, region_sales[i].region)
                    < RegionFirstSeen(Included, region_sales[i + 1].region)

(* ---------------------------------------------------------------------- *)
(* daily_sales_trend on dates and customers with surrounding whitespace    *)
(* ---------------------------------------------------------------------- *)
\* the transactions a trend is computed of: a date and a customer written
\* with and without surrounding whitespace, two customers on one date, a
\* date seen late that sorts first, a Quantity that is no number
TrendTransactions ==
    {Tx(<<"R">>, <<"1">>, <<"1">>, <<"a">>, <<"C", "1">>, <<"d", "1">>),
     Tx(<<"R">>, <<"1">>, <<"1">>, <<"a">>, <<"C", "1", " ">>, <<" ", "d", "1">>),
     Tx(<<"R">>, <<"2">>, <<"1">>, <<"a">>, <<"C", "2">>, <<"d", "0">>),
     Tx(<<"R">>, <<"1">>, <<"1">>, <<"a">>, <<"C", "2">>, <<"d", "1">>),
     Tx(<<"R">>, <<"a">>, <<"1">>, <<"a">>, <<"C", "2">>, <<"d", "2">>),
     Tx(<<"R">>, <<"1">>, <<"1">>, <<"a">>, <<"C", "1">>, <<"d", "0", " ">>)}

InitTrend ==
    /\ pc = "dated"
    /\ txs \in SeqsUpTo(TrendTransactions, MaxTx)
    /\ total_revenue = Num(0)
    /\ region_sales = <<>>
    /\ ViewsIdle
    /\ EnrichIdle
    /\ ValidateIdle
    /\ FilterIdle
    /\ MainIdle
    /\ RecordIdle
    /\ PipelineIdle

\* daily_sales_trend(transactions) called on its own
TrendOfTransactions ==
    /\ pc = "dated"
    /\ daily_trend' = daily_sales_trend(txs)
    /\ pc' = "trend"
    /\ UNCHANGED <<aggregateVars, top_n, top_products, customer_stats, peak, low_threshold, low_products,
                   recordVars, pipelineVars, enrichVars, validateVars,
                   filterVars, mainVars>>

\* find_peak_sales_day(transactions) called on the same transactions
PeakOfTransactions ==
    /\ pc = "trend"
    /\ peak' = find_peak_sales_day(txs)
    /\ pc' = "trend_peak"
    /\ UNCHANGED <<aggregateVars, top_n, top_products, customer_stats, daily_trend, low_threshold,
                   low_products, recordVars, pipelineVars, enrichVars, validateVars,
                   filterVars, mainVars>>

NextTrend == TrendOfTransactions \/ PeakOfTransactions

SpecTrend == InitTrend /\ [][NextTrend]_vars

\* the included transactions whose Date is the string date
OfDateString(date) == {j \in 1..Len(Included) : Included[j].Date = date}

\* the included transactions whose Date without surrounding whitespace is date
OfDate(date) == {j \in 1..Len(Included) : strip(Included[j].Date) = date}

\* C26 as stated: one entry per distinct Date string, by ascending date;
\* transaction_count counts the transactions of the date and
\* unique_customers their distinct CustomerID values.
TrendPerDateString ==
    pc \in {"trend", "trend_peak"} =>
        /\ {daily_trend[i].date : i \in 1..Len(daily_trend)}
              = {Included[j].Date : j \in 1..Len(Included)}
        /\ \A i \in 1..Len(daily_trend) - 1 : StrLess(daily_trend[i].date, daily_trend[i + 1].date)
        /\ \A i \in 1..Len(daily_trend) :
              /\ daily_trend[i].transaction_count = Cardinality(OfDateString(daily_trend[i].date))
              /\ daily_trend[i].unique_customers
                    = Cardinality({Included[j].CustomerID : j \in OfDateString(daily_trend[i].date)})
              /\ 1 <= daily_trend[i].unique_customers
              /\ daily_trend[i].unique_customers <= daily_trend[i].transaction_count

\* C26: one entry per distinct Date without its surrounding whitespace, by
\* ascending date; transaction_count counts the transactions of the date,
\* unique_customers their distinct CustomerID values without surrounding
\* whitespace, at least 1 and at most transaction_count.
TrendPerStrippedDate ==
    pc \in {"trend", "trend_peak"} =>
        /\ {daily_trend[i].date : i \in 1..Len(daily_trend)}
              = {strip(Included[j].Date) : j \in 1..Len(Included)}
        /\ \A i \in 1..Len(daily_trend) - 1 : StrLess(daily_trend[i].date, daily_trend[i + 1].date)
        /\ \A i \in 1..Len(daily_trend) :
              /\ daily_trend[i].transaction_count = Cardinality(OfDate(daily_trend[i].date))
              /\ daily_trend[i].unique_customers
                    = Cardinality({strip(Included[j].CustomerID) : j \in OfDate(daily_trend[i].date)})
              /\ 1 <= daily_trend[i].unique_customers
              /\ daily_trend[i].unique_customers <= daily_trend[i].transaction_count

\* two transactions of one date and one customer, written differently, and
\* a transaction of an earlier date after them
TrendJoinsWrittenDifferently ==
    /\ pc = "trend"
    /\ Len(txs) = 3
    /\ Len(daily_trend) = 2
    /\ txs[1].Date # txs[2].Date
    /\ txs[1].CustomerID # txs[2].CustomerID
    /\ strip(txs[3].Date) = daily_trend[1].date
    /\ daily_trend[2].transaction_count = 2
    /\ daily_trend[2].unique_customers = 1

(* ---------------------------------------------------------------------- *)
(* customer_analysis: order, purchases and products of each customer       *)
(* ---------------------------------------------------------------------- *)
\* the included transactions of a customer
PurchasesOf(customer_id) == {j \in 1..Len(Included) : Included[j].CustomerID = customer_id}

\* the first purchase of a product by a customer
FirstPurchase(customer_id, product_name) ==
    CHOOSE j \in PurchasesOf(customer_id) :
        /\ Included[j].ProductName = product_name
        /\ \A k \in PurchasesOf(customer_id) : Included[k].ProductName = product_name => j <= k

\* avg is total / count to two decimals: avg in hundredths, total in quarters
IsAverage(avg, total, count) ==
    IF total.k = "nan" THEN avg.k = "nan"
    ELSE /\ avg.k = "num"
         /\ 2 * (avg.v * count - 25 * total.v) <= count
         /\ 2 * (25 * total.v - avg.v * count) <= count

\* what customer_analysis says of the purchases of each customer
CustomerEntriesRight ==
    /\ Len(customer_stats) = Cardinality({Included[j].CustomerID : j \in 1..Len(Included)})
    /\ \A i \in 1..Len(customer_stats) :
          LET c == customer_stats[i]
          IN  /\ PurchasesOf(c.customer_id) # {}
              /\ c.purchase_count = Cardinality(PurchasesOf(c.customer_id))
              /\ {c.products_bought[k] : k \in 1..Len(c.products_bought)}
                    = {Included[j].ProductName : j \in PurchasesOf(c.customer_id)}
              /\ \A k \in 1..Len(c.products_bought) : \A l \in (k + 1)..Len(c.products_bought) :
                    /\ c.products_bought[k] # c.products_bought[l]
                    /\ FirstPurchase(c.customer_id, c.products_bought[k])
                          < FirstPurchase(c.customer_id, c.products_bought[l])
              /\ Len(c.products_bought) <= c.purchase_count
              /\ IsAverage(c.avg_order_value, c.total_spent, c.purchase_count)

\* C27: customer_analysis returns one entry per distinct CustomerID by
\* total_spent descending, with the customer's number of transactions, each
\* product bought once in order of first purchase, and the average order
\* value total_spent / purchase_count to two decimals.
CustomersRankedWithPurchases ==
    pc \in {"customers", "daily", "peak", "low"} =>
        /\ CustomerEntriesRight
        /\ \A i \in 1..Len(customer_stats) - 1 :
              fge(customer_stats[i].total_spent, customer_stats[i + 1].total_spent)

(* ---------------------------------------------------------------------- *)
(* The sums of the views against calculate_total_revenue                   *)
(* ---------------------------------------------------------------------- *)
CustomerTotals == [i \in 1..Len(customer_stats) |-> customer_stats[i].total_spent]
ProductTotals == [i \in 1..Len(top_products) |-> top_products[i].total_revenue]
DailyRevenues == [i \in 1..Len(daily_trend) |-> daily_trend[i].revenue]

\* top_selling_products was asked for at least as many products as there are
AllProductsListed == top_n >= Cardinality(ProductsSold)

\* the products both product views report
InBothProductViews ==
    {m \in (1..Len(low_products)) \X (1..Len(top_products)) :
        low_products[m[1]].name = top_products[m[2]].name}

\* C28 as stated: calculate_total_revenue equals the sum of total_sales of
\* the regions, of total_spent of the customers, of total_revenue of all the
\* products and of revenue of the days, and low_performing_products reports
\* the total_quantity top_selling_products reports for the same product.
ViewsAgreeExactly ==
    pc = "low" =>
        /\ FloatSum(RegionTotals) = total_revenue
        /\ FloatSum(CustomerTotals) = total_revenue
        /\ AllProductsListed => FloatSum(ProductTotals) = total_revenue
        /\ FloatSum(DailyRevenues) = total_revenue
        /\ \A m \in InBothProductViews :
              FromInt(low_products[m[1]].total_quantity) = top_products[m[2]].total_quantity

\* the rounding allowed to a sum of the amounts of the included transactions
\* added in any grouping, in quarters
SumTolerance ==
    (Len(Included) * Sum([i \in 1..Len(Included) |-> Abs(Revenue(Included[i]).v)]))
        \div Pow2(MantBits - 1)

\* a sum of a view is not-a-number when the revenue is, and within the
\* rounding of the additions plus cents hundredths otherwise
SumMatchesRevenue(view_sum, cents) ==
    /\ view_sum.k = total_revenue.k
    /\ total_revenue.k = "num" =>
          100 * Abs(view_sum.v - total_revenue.v) <= 100 * SumTolerance + 4 * cents

\* C28: the views include the same transactions, their sums equal
\* calculate_total_revenue within the rounding of the float additions (the
\* daily revenues within half a cent per day more, being rounded to two
\* decimals), and low_performing_products reports the integer part of the
\* total_quantity top_selling_products reports for the same product.
ViewsAgreeWithinRounding ==
    pc = "low" =>
        /\ Sum(RegionCounts) = Len(Included)
        /\ Sum([i \in 1..Len(customer_stats) |-> customer_stats[i].purchase_count]) = Len(Included)
        /\ Sum([i \in 1..Len(daily_trend) |-> daily_trend[i].transaction_count]) = Len(Included)
        /\ SumMatchesRevenue(FloatSum(RegionTotals), 0)
        /\ SumMatchesRevenue(FloatSum(CustomerTotals), 0)
        /\ AllProductsListed => SumMatchesRevenue(FloatSum(ProductTotals), 0)
        /\ SumMatchesRevenue(FloatSum(DailyRevenues), Len(daily_trend))
        /\ \A m \in InBothProductViews :
              /\ top_products[m[2]].total_quantity.k = "num"
              /\ low_products[m[1]].total_quantity = int(top_products[m[2]].total_quantity)

\* the customers' totals add up to another float than the revenue, and a
\* product is reported with 1.5 units by one view and 1 by the other
ViewsDifferByRounding ==
    /\ pc = "low"
    /\ total_revenue.k = "num"
    /\ AllProductsListed
    /\ FloatSum(CustomerTotals).k = "num"
    /\ FloatSum(CustomerTotals) # total_revenue
    /\ \E m \in InBothProductViews :
          FromInt(low_products[m[1]].total_quantity) # top_products[m[2]].total_quantity

(* ---------------------------------------------------------------------- *)
(* One DataCleaner used for several process_records calls                  *)
(* ---------------------------------------------------------------------- *)
\* the line lists handed to process_records: none, a header only, records
\* that are kept, records rejected for two reasons, a blank line
ReuseInputs ==
    {<<>>, <<HeaderLine>>, <<HeaderLine, GoodLine>>, <<HeaderLine, MissingLine>>,
     <<HeaderLine, GoodLine, NegativeLine>>, <<HeaderLine, BlankLine, GoodLine>>,
     <<HeaderLine, ShortLine, MissingLine>>}

InitReuse ==
    /\ pc = "constructed"
    /\ lines = <<>>
    /\ cleaner = NewDataCleaner
    /\ valid_lines = <<>>
    /\ invalid_lines = <<>>
    /\ transactions = <<>>
    /\ rerun = NoRerun
    /\ RecordIdle
    /\ AggregateIdle

\* cleaner.process_records(lines) on the cleaner of the calls before, until
\* it has counted MaxProcessed records
ProcessRecordsOnSameCleaner ==
    /\ pc \in {"constructed", "processed"}
    /\ cleaner.valid_records + cleaner.invalid_records < MaxProcessed
    /\ \E ls \in ReuseInputs :
          /\ lines' = ls
          /\ Returned(process_records(cleaner, ls))
    /\ pc' = "processed"
    /\ UNCHANGED <<transactions, rerun, recordVars, aggregateVars, viewVars, enrichVars, validateVars,
                   filterVars, mainVars>>

NextReuse == ProcessRecordsOnSameCleaner

SpecReuse == InitReuse /\ [][NextReuse]_vars

\* C30: after any sequence of process_records calls on one DataCleaner,
\* valid_records + invalid_records <= total_records and the reason log has
\* invalid_records entries.
CountersConsistent ==
    pc = "processed" =>
        /\ cleaner.valid_records + cleaner.invalid_records <= cleaner.total_records
        /\ Len(cleaner.invalid_reasons) = cleaner.invalid_records

====
